---- MODULE Spec2Model ----
(***************************************************************************)
(* RPC over pub/sub: the RabbitMQ and Kafka bindings of go-pkgs.           *)
(*                                                                         *)
(* One client process (N caller goroutines in RemoteCall, one consumer     *)
(* goroutine, one goroutine that calls Shutdown) and one server process    *)
(* (its dispatch loop), joined by a transport that carries request and     *)
(* reply envelopes.  The variable binding selects whose code runs: the     *)
(* RabbitMQ client/server or the Kafka client/server.                      *)
(***************************************************************************)
EXTENDS Integers, Sequences, FiniteSets, TLC

\* ------------------------------------------------------------------ bounds
NumCallers == 2
MaxCalls == 2
MaxDup == 2
LifeCalls == 1
MaxShutdowns == 2
MaxDisconnects == 1
\* Connection.AttemptConnect: the largest Config.Attempts tried, and the number
\* of AttemptConnect calls made on one Connection (construction, reconnects).
MaxAttempts == 2
MaxConnRuns == 2
\* The Attempts configured on the Connection of a running client or server
\* (client.ConnAttempts / server.ConnAttempts).
ReconnectAttempts == 2

\* --------------------------------------------------------- program values
\* Go's nil interface value (request == nil) and the zero value of the
\* caller's response variable, encoded as integers outside Payloads.
NilValue == -1
OutInit == 0
\* A value json.Marshal rejects (a Go channel or func value), as a handler's
\* result or as a RemoteCall request.
Unserializable == -2
Payloads == {7, 12}

Bindings == {"rabbitmq", "kafka"}
Insts == {"client", "server"}
Callers == 1..NumCallers
CorrIDs == 1..(IF MaxCalls > LifeCalls THEN MaxCalls ELSE LifeCalls)

\* Wire statuses.
Success == "success"
KafkaErrBadHandler == "kafka unknown handler"
KafkaErrInternalServer == "kafka internal server error"
RmqErrBadHandler == "bad-handler"
RmqErrInternalServer == "internal-error"

\* What the environment does in one run: concurrent calls over a transport
\* that delivers each message once, a single call over a transport that
\* delivers messages again, or a single call while the client's (the server's)
\* lifecycle events happen: Shutdown calls and transport disconnects.
Quiet == [i \in Insts |-> 0]
Scenarios ==
    { [name |-> "rpc", calls |-> MaxCalls, dup |-> 0, shut |-> Quiet, disc |-> Quiet],
      [name |-> "redelivery", calls |-> LifeCalls, dup |-> MaxDup, shut |-> Quiet,
       disc |-> Quiet] }
    \cup
    { [name |-> i, calls |-> LifeCalls, dup |-> 0,
       shut |-> [j \in Insts |-> IF j = i THEN MaxShutdowns ELSE 0],
       disc |-> [j \in Insts |-> IF j = i THEN MaxDisconnects ELSE 0]] : i \in Insts }

VARIABLES
    binding,     \* which binding's code runs
    scen,        \* the environment's scenario (never changes)
    pc,          \* caller -> position inside RemoteCall
    handler,     \* caller -> handler name argument
    request,     \* caller -> request argument
    out,         \* caller -> the caller's output slot
    result,      \* caller -> value returned by RemoteCall
    corr,        \* caller -> corrID local (0 before uuid.New)
    sawStop,     \* caller -> what RemoteCall's entry select saw on the stop channel
    pcall,       \* corrID -> pendingCall object {done, status, body}
    calls,       \* Client.calls: the registered corrIDs
    nextCorr,    \* source of fresh correlation ids
    nCalls,      \* RemoteCall invocations so far
    reqNet,      \* request envelopes in flight to the server
    repNet,      \* reply envelopes in flight to the client
    dupCount,    \* redeliveries made by the transport
    stop,        \* instance -> its stop channel: "open", or who closed it
    connLive,    \* instance -> its transport handle / delivery stream is open
    loop,        \* instance -> position of its consumer goroutine
    errChan,     \* instance -> its error channel: "open" or "closed"
    errBuf,      \* instance -> errors buffered in its error channel (Kafka: capacity 1)
    panicked,    \* instance -> "none", or the function whose panic killed the process
    shutPc,      \* instance -> position of the goroutine calling Shutdown
    shutRes,     \* instance -> results of the completed Shutdown calls, in order
    disconnects, \* instance -> transport disconnects so far
    channel,     \* instance -> the handle its publish calls use (RabbitMQ: conn.Channel;
                 \* Kafka: conn.Client): "live", "closed" or "nil"
    retries,     \* instance -> attempts left in the AttemptConnect run of its reconnect()
    work,        \* instance -> what its consumer goroutines past the wait point hold
    heads,       \* instance -> its consumer goroutines at the head of the Kafka loop,
                 \* about to read the stop channel
    invoked,     \* history: the handler names whose router entry was invoked
    blocked,     \* history: caller -> its call was blocked waiting for its reply
                 \* when the client's Shutdown closed stop or its transport failed
    early,       \* history: caller -> the reply to its call reached the consumer
                 \* loop after the publish and before the call's timer fired
    effects,     \* history: caller -> publishes, registry inserts and registry
                 \* deletes made by its current RemoteCall
    gens,        \* history: instance -> consumer goroutines started and exited
    slog,        \* history: what the server did, in order (kept in the "sequence" scenario)
    conn,        \* a rabbitmq.Connection and the AttemptConnect call running on it
    ctor         \* the last call of the Kafka server.New and what it returned

vars == <<binding, scen, pc, handler, request, out, result, corr, sawStop, pcall,
          calls, nextCorr, nCalls, reqNet, repNet, dupCount, stop, connLive,
          loop, errChan, errBuf, panicked, shutPc, shutRes, disconnects,
          channel, retries, work, heads, invoked, early, blocked, effects, gens, slog,
          conn,
          ctor>>

\* ------------------------------------------------------------------- JSON
DigitChars == <<"0", "1", "2", "3", "4", "5", "6", "7", "8", "9">>

DigitVal(ch) == (CHOOSE i \in 1..10 : DigitChars[i] = ch) - 1

RECURSIVE Digits(_)
Digits(n) ==
    IF n < 10 THEN <<DigitChars[n + 1]>>
    ELSE Digits(n \div 10) \o <<DigitChars[(n % 10) + 1]>>

RECURSIVE ParseDigits(_)
ParseDigits(body) ==
    IF body = <<>> THEN 0
    ELSE ParseDigits(SubSeq(body, 1, Len(body) - 1)) * 10 + DigitVal(body[Len(body)])

JsonNull == <<"n", "u", "l", "l">>

IsJsonNumber(body) ==
    /\ Len(body) > 0
    /\ \A i \in 1..Len(body) : \E d \in 1..10 : DigitChars[d] = body[i]
    /\ Len(body) > 1 => body[1] # "0"

\* json.Marshal of a handler result or of a non-nil request: the error flag,
\* and the bytes returned (none with an error).
MarshalFails(v) == v = Unserializable
Marshal(v) ==
    IF MarshalFails(v) THEN <<>>
    ELSE IF v = NilValue THEN JsonNull
    ELSE Digits(v)

\* json.Unmarshal(body, &slot): the error flag and the slot's new value.
Unmarshal(body, cur) ==
    IF body = JsonNull THEN [err |-> FALSE, val |-> cur]
    ELSE IF IsJsonNumber(body) THEN [err |-> FALSE, val |-> ParseDigits(body)]
    ELSE [err |-> TRUE, val |-> cur]

\* Client.publish: nil request => nil (empty) body.
RequestBody(r) == IF r = NilValue THEN <<>> ELSE Marshal(r)

\* --------------------------------------------------------------- statuses
ErrBadHandlerStatus(b) == IF b = "kafka" THEN KafkaErrBadHandler ELSE RmqErrBadHandler
ErrInternalServerStatus(b) == IF b = "kafka" THEN KafkaErrInternalServer ELSE RmqErrInternalServer
\* The statuses serveCall passes to Server.publish.
ServerStatuses(b) == {Success, ErrBadHandlerStatus(b), ErrInternalServerStatus(b)}

\* ----------------------------------------------------------------- server
\* The router given to server.New, and the handler names callers ask for.
Router == {"echo", "fail", "unser"}
\* The (handler, request) arguments callers pass to RemoteCall.
CallInputs ==
    ({"echo"} \X (Payloads \cup {NilValue, Unserializable}))
        \cup {<<"fail", 7>>, <<"nosuch", 7>>}
ReplyDest == "client-exchange"

\* A router entry applied to a request body: the (response, error) pair, msg
\* being the error's text.  "echo" decodes the body and returns the decoded
\* value, "fail" returns an error, "unser" returns a value that cannot be
\* serialized.
CallHandler(h, body) ==
    IF h = "fail" THEN [err |-> TRUE, val |-> NilValue, msg |-> "handler failed"]
    ELSE IF h = "unser" THEN [err |-> FALSE, val |-> Unserializable, msg |-> ""]
    ELSE LET u == Unmarshal(body, NilValue) IN
         [err |-> u.err, val |-> u.val,
          msg |-> IF u.err THEN "unexpected end of JSON input" ELSE ""]

\* Server.publish addressing every reply to the client's exchange instead of
\* the request's reply destination.
Reply_ToClientExchange(m, body, status) ==
    [corr |-> m.corr, status |-> status, body |-> body, dest |-> ReplyDest]

\* Server.publish: the reply envelope, addressed to the request's reply
\* destination.
Reply(m, body, status) ==
    [corr |-> m.corr, status |-> status, body |-> body, dest |-> m.replyTo]

\* serveCall without the router lookup's miss branch: every request is handed
\* to a handler.
RmqServeCall_NoMissBranch(m) ==
    LET r == CallHandler(m.handler, m.body) IN
    IF r.err
    THEN [pub |-> {Reply(m, <<>>, RmqErrInternalServer)}, inv |-> TRUE]
    ELSE [pub |-> {Reply(m, Marshal(r.val), Success)}, inv |-> TRUE]

\* Server.serveCall of the RabbitMQ binding: the replies published (a set of
\* at most one) and whether a handler was invoked.
RmqServeCall(m) ==
    IF m.handler \notin Router
    THEN [pub |-> {Reply(m, <<>>, RmqErrBadHandler)}, inv |-> FALSE]
    ELSE LET r == CallHandler(m.handler, m.body) IN
         IF r.err
         THEN [pub |-> {Reply(m, <<>>, RmqErrInternalServer)}, inv |-> TRUE]
         \* a json.Marshal error is logged; the (nil) body is published as success
         ELSE [pub |-> {Reply(m, Marshal(r.val), Success)}, inv |-> TRUE]

\* serveCall that sends the handler's error text back as the reply body.
KafkaServeCall_LeakError(m) ==
    IF m.handler = "" \/ m.corr = 0 \/ m.replyTo = ""
    THEN [pub |-> {}, inv |-> FALSE]
    ELSE IF m.handler \notin Router
    THEN [pub |-> {Reply(m, <<>>, KafkaErrBadHandler)}, inv |-> FALSE]
    ELSE LET r == CallHandler(m.handler, m.body) IN
         IF r.err
         THEN [pub |-> {Reply(m, <<r.msg>>, KafkaErrInternalServer)}, inv |-> TRUE]
         ELSE IF MarshalFails(r.val)
         THEN [pub |-> {Reply(m, <<>>, KafkaErrInternalServer)}, inv |-> TRUE]
         ELSE [pub |-> {Reply(m, Marshal(r.val), Success)}, inv |-> TRUE]

\* serveCall without the return after the handler-error reply: it goes on to
\* marshal the (nil) response and publishes again.
KafkaServeCall_NoReturn(m) ==
    IF m.handler = "" \/ m.corr = 0 \/ m.replyTo = ""
    THEN [pub |-> {}, inv |-> FALSE]
    ELSE IF m.handler \notin Router
    THEN [pub |-> {Reply(m, <<>>, KafkaErrBadHandler)}, inv |-> FALSE]
    ELSE LET r == CallHandler(m.handler, m.body) IN
         IF r.err
         THEN [pub |-> {Reply(m, <<>>, KafkaErrInternalServer),
                        Reply(m, Marshal(r.val), Success)}, inv |-> TRUE]
         ELSE IF MarshalFails(r.val)
         THEN [pub |-> {Reply(m, <<>>, KafkaErrInternalServer)}, inv |-> TRUE]
         ELSE [pub |-> {Reply(m, Marshal(r.val), Success)}, inv |-> TRUE]

\* Server.serveCall of the Kafka binding.
KafkaServeCall(m) ==
    IF m.handler = "" \/ m.corr = 0 \/ m.replyTo = ""
    THEN [pub |-> {}, inv |-> FALSE]
    ELSE IF m.handler \notin Router
    THEN [pub |-> {Reply(m, <<>>, KafkaErrBadHandler)}, inv |-> FALSE]
    ELSE LET r == CallHandler(m.handler, m.body) IN
         IF r.err
         THEN [pub |-> {Reply(m, <<>>, KafkaErrInternalServer)}, inv |-> TRUE]
         ELSE IF MarshalFails(r.val)
         THEN [pub |-> {Reply(m, <<>>, KafkaErrInternalServer)}, inv |-> TRUE]
         ELSE [pub |-> {Reply(m, Marshal(r.val), Success)}, inv |-> TRUE]

ServeCall(b, m) == IF b = "kafka" THEN KafkaServeCall(m) ELSE RmqServeCall(m)

\* ----------------------------------------------------------------- client
\* The zero value of a pendingCall made at RemoteCall's "call := &pendingCall{...}".
NewPendingCall == [done |-> FALSE, status |-> "", body |-> <<>>]

\* The reads RemoteCall makes of the pendingCall after <-call.done, in program
\* order: "status" is "if call.status == Success", "body" the json.Unmarshal
\* of call.body, "badhandler" and "internal" the two comparisons of call.status
\* with the error texts.
DecodeReads == {"status", "body", "badhandler", "internal"}

\* A tail of RemoteCall that unmarshals the body of every reply that is not
\* one of the two error statuses.
DecodeStep_UnknownAsSuccess(b, at, call, cur) ==
    IF at = "status"
    THEN [next |-> IF call.status = Success THEN "body" ELSE "badhandler",
          res |-> "none", out |-> cur]
    ELSE IF at = "body"
    THEN LET u == Unmarshal(call.body, cur) IN
         IF u.err THEN [next |-> "ret", res |-> "ErrUnmarshal", out |-> cur]
         ELSE [next |-> "ret", res |-> "nil", out |-> u.val]
    ELSE IF at = "badhandler"
    THEN IF call.status = ErrBadHandlerStatus(b)
         THEN [next |-> "ret", res |-> "ErrBadHandler", out |-> cur]
         ELSE [next |-> "internal", res |-> "none", out |-> cur]
    ELSE IF call.status = ErrInternalServerStatus(b)
         THEN [next |-> "ret", res |-> "ErrInternalServer", out |-> cur]
         ELSE [next |-> "body", res |-> "none", out |-> cur]

\* Tail of RemoteCall, after <-call.done: the read at position at of the
\* pendingCall as it is at that moment (call), with the caller's output slot
\* cur.  The result is the position RemoteCall goes to ("ret": it returns) and,
\* when it returns, the error returned and the output slot.
DecodeStep(b, at, call, cur) ==
    IF at = "status"
    THEN [next |-> IF call.status = Success THEN "body" ELSE "badhandler",
          res |-> "none", out |-> cur]
    ELSE IF at = "body"
    THEN LET u == Unmarshal(call.body, cur) IN
         IF u.err THEN [next |-> "ret", res |-> "ErrUnmarshal", out |-> cur]
         ELSE [next |-> "ret", res |-> "nil", out |-> u.val]
    ELSE IF at = "badhandler"
    THEN IF call.status = ErrBadHandlerStatus(b)
         THEN [next |-> "ret", res |-> "ErrBadHandler", out |-> cur]
         ELSE [next |-> "internal", res |-> "none", out |-> cur]
    ELSE IF call.status = ErrInternalServerStatus(b)
         THEN [next |-> "ret", res |-> "ErrInternalServer", out |-> cur]
         ELSE [next |-> "ret", res |-> "nil", out |-> cur]

\* A reply matched to whatever call is pending instead of the one it names.
MatchedCall_AnyPending(b, m, registry) ==
    IF registry = {} THEN 0 ELSE CHOOSE k \in registry : TRUE

\* Client.getCall / Client.handleResponse: the registry key a reply is matched to
\* (0: no pending call is touched).
MatchedCall(b, m, registry) ==
    IF b = "kafka" /\ m.corr = 0 THEN 0
    ELSE IF m.corr \in registry THEN m.corr
    ELSE 0

\* The status a reply hands to the pending call (Kafka: "success" when the
\* status header is absent).
ReplyStatus(b, m) == IF b = "kafka" /\ m.status = "" THEN Success ELSE m.status

\* RemoteCall without the entry select on c.stop.
AfterStopCheck_NoCheck(b, closed) == "publish"

\* RemoteCall's first select on c.stop: where the call goes next.
AfterStopCheck(b, closed) ==
    IF ~closed THEN "publish"
    ELSE IF b = "kafka" THEN "done"
    ELSE "sleep"

Alive(i) == panicked[i] = "none"
StopClosed(i) == stop[i] # "open"

\* ------------------------------------------------- rabbitmq.Connection
\* rabbitmq.New: a Connection with no handle, no channel and no delivery
\* stream; pc/i/err/trace/res describe the AttemptConnect call on it (trace:
\* the outcome of each connect() invocation of the current call, "none"
\* meaning success, otherwise the step that failed).
NewConnection(n) ==
    [Attempts |-> n, Connection |-> "nil", Channel |-> "nil", Delivery |-> "nil",
     pc |-> "idle", i |-> 0, err |-> <<>>, trace |-> <<>>, res |-> <<>>, runs |-> 0]

\* The Attempts of the Connection that client.New / server.New build by default.
DefaultAttempts == 10

\* No server.New call yet.
NoCtor == [called |-> FALSE, kind |-> "", groupID |-> "", connectOk |-> FALSE,
           server |-> "nil", err |-> "nil", connects |-> 0, consumer |-> FALSE,
           panic |-> FALSE]

\* What one RemoteCall has done so far: calls of the transport's publish,
\* addCall and deleteCall.
NoEffects == [pub |-> 0, ins |-> 0, del |-> 0]
\* A consumer goroutine is started by "go consumer()" / has returned.
GoConsumer(g) == [g EXCEPT !.started = @ + 1]
ExitConsumer(g) == [g EXCEPT !.exited = @ + 1]

\* The state after client.New / server.New returned without error, with the
\* request envelopes reqs waiting on the server's request stream, in one of
\* the scenarios S.
ConstructedIn(S, reqs) ==
    /\ binding \in Bindings
    /\ scen \in S
    /\ pc = [c \in Callers |-> "idle"]
    /\ handler = [c \in Callers |-> ""]
    /\ request = [c \in Callers |-> NilValue]
    /\ out = [c \in Callers |-> OutInit]
    /\ result = [c \in Callers |-> "none"]
    /\ corr = [c \in Callers |-> 0]
    /\ sawStop = [c \in Callers |-> "open"]
    /\ pcall = [i \in CorrIDs |-> NewPendingCall]
    /\ calls = {}
    /\ nextCorr = 1
    /\ nCalls = 0
    /\ reqNet = reqs
    /\ repNet = {}
    /\ dupCount = 0
    /\ stop = [i \in Insts |-> "open"]
    /\ connLive = [i \in Insts |-> TRUE]
    /\ loop = [i \in Insts |-> IF i = "server" /\ scen.name = "server" THEN "new"
                               ELSE IF binding = "kafka" THEN "head" ELSE "select"]
    /\ errChan = [i \in Insts |-> "open"]
    /\ errBuf = [i \in Insts |-> 0]
    /\ panicked = [i \in Insts |-> "none"]
    /\ shutPc = [i \in Insts |-> "idle"]
    /\ shutRes = [i \in Insts |-> <<>>]
    /\ disconnects = [i \in Insts |-> 0]
    /\ channel = [i \in Insts |-> "live"]
    /\ retries = [i \in Insts |-> 0]
    /\ work = [i \in Insts |-> {}]
    /\ heads = [i \in Insts |-> IF loop[i] = "head" THEN 1 ELSE 0]
    /\ invoked = {}
    /\ early = [c \in Callers |-> FALSE]
    /\ blocked = [c \in Callers |-> FALSE]
    /\ effects = [c \in Callers |-> NoEffects]
    /\ gens = [i \in Insts |-> [started |-> IF loop[i] = "new" THEN 0 ELSE 1, exited |-> 0]]
    /\ slog = <<>>

Constructed(reqs) == ConstructedIn(Scenarios, reqs)

Init ==
    /\ Constructed({})
    /\ conn = NewConnection(DefaultAttempts)
    /\ ctor = NoCtor

constVars == <<binding, scen, conn, ctor>>
callerVars == <<pc, handler, request, out, result, corr, sawStop>>
regVars == <<pcall, calls, early, blocked>>
idVars == <<nextCorr, nCalls>>
netVars == <<reqNet, repNet, dupCount>>
lifeVars == <<stop, connLive, loop, errChan, errBuf, panicked, shutPc, shutRes, disconnects,
              channel, retries, work, heads>>
histVars == <<invoked, effects, gens, slog>>


\* The wrapped errors of c.publish that RemoteCall returns: the transport's
\* (Channel.Publish / ProduceSync) and json.Marshal's.
PublishErrors == {"ErrPublish", "ErrMarshal"}

\* RemoteCall, entry: the first select on c.stop.  Callers are numbered in the
\* order of their first call.  The pendingCall of the caller's previous call
\* is not touched: it lives on while a consumer goroutine holds it.
RemoteCallBegin(c, h, r) ==
    /\ Alive("client")
    /\ pc[c] \in {"idle", "done"}
    /\ \A d \in Callers : d < c => pc[d] # "idle"
    /\ nCalls < scen.calls
    /\ nCalls' = nCalls + 1
    /\ handler' = [handler EXCEPT ![c] = h]
    /\ request' = [request EXCEPT ![c] = r]
    /\ out' = [out EXCEPT ![c] = OutInit]
    /\ corr' = [corr EXCEPT ![c] = 0]
    /\ sawStop' = [sawStop EXCEPT ![c] = stop["client"]]
    /\ pc' = [pc EXCEPT ![c] = AfterStopCheck(binding, StopClosed("client"))]
    /\ result' = [result EXCEPT ![c] = IF AfterStopCheck(binding, StopClosed("client")) = "done"
                                       THEN "ErrConnectionClosed" ELSE "none"]
    /\ early' = [early EXCEPT ![c] = FALSE]
    /\ blocked' = [blocked EXCEPT ![c] = FALSE]
    /\ effects' = [effects EXCEPT ![c] = NoEffects]
    /\ UNCHANGED <<constVars, pcall, calls, nextCorr, netVars, lifeVars, invoked, gens,
                   slog>>

\* RemoteCall returning ErrConnectionClosed after the sleep without reading
\* c.stop again.
RemoteCallRecheck_NoReread(c) ==
    /\ Alive("client")
    /\ pc[c] = "sleep"
    /\ pc' = [pc EXCEPT ![c] = "done"]
    /\ result' = [result EXCEPT ![c] = "ErrConnectionClosed"]
    /\ UNCHANGED <<constVars, handler, request, out, corr, sawStop, regVars, idVars,
                   netVars, lifeVars, histVars>>

\* RemoteCall (RabbitMQ): after time.Sleep(c.timeout), the second select on c.stop.
RemoteCallRecheck(c) ==
    /\ Alive("client")
    /\ pc[c] = "sleep"
    /\ IF StopClosed("client")
       THEN /\ pc' = [pc EXCEPT ![c] = "done"]
            /\ result' = [result EXCEPT ![c] = "ErrConnectionClosed"]
       ELSE /\ pc' = [pc EXCEPT ![c] = "publish"]
            /\ UNCHANGED result
    /\ UNCHANGED <<constVars, handler, request, out, corr, sawStop, regVars, idVars,
                   netVars, lifeVars, histVars>>

\* c.publish calling Channel.Publish a second time after it failed.
RemoteCallPublish_Retry(c) ==
    /\ Alive("client")
    /\ pc[c] = "publish"
    /\ corr' = [corr EXCEPT ![c] = nextCorr]
    /\ nextCorr' = nextCorr + 1
    /\ IF request[c] # NilValue /\ MarshalFails(request[c])
       THEN /\ pc' = [pc EXCEPT ![c] = "done"]
            /\ result' = [result EXCEPT ![c] = "ErrMarshal"]
            /\ UNCHANGED <<reqNet, panicked, effects>>
       ELSE /\ CASE channel["client"] = "live" ->
                       /\ reqNet' = reqNet \cup {[corr |-> nextCorr,
                                                  handler |-> handler[c],
                                                  replyTo |-> ReplyDest,
                                                  body |-> RequestBody(request[c])]}
                       /\ pc' = [pc EXCEPT ![c] = "register"]
                       /\ UNCHANGED <<result, panicked>>
                 [] channel["client"] = "closed" ->
                       /\ pc' = [pc EXCEPT ![c] = "done"]
                       /\ result' = [result EXCEPT ![c] = "ErrPublish"]
                       /\ UNCHANGED <<reqNet, panicked>>
                 [] channel["client"] = "nil" ->
                       /\ panicked' = [panicked EXCEPT !["client"] = "publish"]
                       /\ UNCHANGED <<pc, result, reqNet>>
            /\ effects' = [effects EXCEPT ![c].pub = IF channel["client"] = "closed" THEN @ + 2 ELSE @ + 1]
    /\ UNCHANGED <<constVars, handler, request, out, sawStop, regVars, nCalls, repNet,
                   dupCount, stop, connLive, loop, errChan, errBuf, shutPc, shutRes,
                   disconnects, channel, retries, heads, work, invoked, gens, slog>>

\* RemoteCall: corrID := uuid.New(); c.publish(corrID, handler, request).
\* publish first serializes a non-nil request and returns json.Marshal's error
\* without touching the transport; otherwise it reads the Connection's channel
\* at the time of the call: the transport publish fails when that handle is
\* closed, and dereferences a nil pointer (a panic) when a connect() of the
\* running reconnect() has stored a nil channel.  RemoteCall returns either
\* error wrapped, before addCall.
RemoteCallPublish(c) ==
    /\ Alive("client")
    /\ pc[c] = "publish"
    /\ corr' = [corr EXCEPT ![c] = nextCorr]
    /\ nextCorr' = nextCorr + 1
    /\ IF request[c] # NilValue /\ MarshalFails(request[c])
       THEN /\ pc' = [pc EXCEPT ![c] = "done"]
            /\ result' = [result EXCEPT ![c] = "ErrMarshal"]
            /\ UNCHANGED <<reqNet, panicked, effects>>
       ELSE /\ CASE channel["client"] = "live" ->
                       /\ reqNet' = reqNet \cup {[corr |-> nextCorr,
                                                  handler |-> handler[c],
                                                  replyTo |-> ReplyDest,
                                                  body |-> RequestBody(request[c])]}
                       /\ pc' = [pc EXCEPT ![c] = "register"]
                       /\ UNCHANGED <<result, panicked>>
                 [] channel["client"] = "closed" ->
                       /\ pc' = [pc EXCEPT ![c] = "done"]
                       /\ result' = [result EXCEPT ![c] = "ErrPublish"]
                       /\ UNCHANGED <<reqNet, panicked>>
                 [] channel["client"] = "nil" ->
                       /\ panicked' = [panicked EXCEPT !["client"] = "publish"]
                       /\ UNCHANGED <<pc, result, reqNet>>
            /\ effects' = [effects EXCEPT ![c].pub = @ + 1]
    /\ UNCHANGED <<constVars, handler, request, out, sawStop, regVars, nCalls, repNet,
                   dupCount, stop, connLive, loop, errChan, errBuf, shutPc, shutRes,
                   disconnects, channel, retries, heads, work, invoked, gens, slog>>

\* RemoteCall: call := &pendingCall{...}; c.addCall(corrID, call).
RemoteCallRegister(c) ==
    /\ Alive("client")
    /\ pc[c] = "register"
    /\ pcall' = [pcall EXCEPT ![corr[c]] = NewPendingCall]
    /\ calls' = calls \cup {corr[c]}
    /\ pc' = [pc EXCEPT ![c] = "wait"]
    /\ effects' = [effects EXCEPT ![c].ins = @ + 1]
    /\ UNCHANGED <<constVars, handler, request, out, result, corr, sawStop, early, blocked,
                   idVars, netVars, lifeVars, invoked, gens, slog>>

\* RemoteCall: the select's timer case.
RemoteCallTimeout(c) ==
    /\ Alive("client")
    /\ pc[c] = "wait"
    /\ result' = [result EXCEPT ![c] = "ErrTimeout"]
    /\ pc' = [pc EXCEPT ![c] = "ret"]
    /\ UNCHANGED <<constVars, handler, request, out, corr, sawStop, regVars, idVars,
                   netVars, lifeVars, histVars>>

\* RemoteCall (Kafka): the caller's ctx is cancelled; timeoutCtx.Err() is returned.
RemoteCallCtxDone(c) ==
    /\ Alive("client")
    /\ binding = "kafka"
    /\ pc[c] = "wait"
    /\ result' = [result EXCEPT ![c] = "ErrContextCanceled"]
    /\ pc' = [pc EXCEPT ![c] = "ret"]
    /\ UNCHANGED <<constVars, handler, request, out, corr, sawStop, regVars, idVars,
                   netVars, lifeVars, histVars>>

\* RemoteCall: the select's <-call.done case.
RemoteCallDone(c) ==
    /\ Alive("client")
    /\ pc[c] = "wait"
    /\ pcall[corr[c]].done
    /\ pc' = [pc EXCEPT ![c] = "status"]
    /\ UNCHANGED <<constVars, handler, request, out, result, corr, sawStop, regVars,
                   idVars, netVars, lifeVars, histVars>>

\* RemoteCall after <-call.done: one of its reads of call.status and call.body,
\* none of them under a lock; it sees what getCall / handleResponse has written
\* so far, for this reply or for a later one with the same correlation id.
RemoteCallDecode(c) ==
    /\ Alive("client")
    /\ pc[c] \in DecodeReads
    /\ LET d == DecodeStep(binding, pc[c], pcall[corr[c]], out[c]) IN
         /\ pc' = [pc EXCEPT ![c] = d.next]
         /\ result' = [result EXCEPT ![c] = d.res]
         /\ out' = [out EXCEPT ![c] = d.out]
    /\ UNCHANGED <<constVars, handler, request, corr, sawStop, regVars, idVars, netVars,
                   lifeVars, histVars>>

\* deleteCall run on the completion path only, not deferred.
RemoteCallReturn_DeleteOnReply(c) ==
    /\ Alive("client")
    /\ pc[c] = "ret"
    /\ calls' = IF result[c] \in {"ErrTimeout", "ErrContextCanceled"} THEN calls
               ELSE calls \ {corr[c]}
    /\ pc' = [pc EXCEPT ![c] = "done"]
    /\ effects' = [effects EXCEPT ![c].del =
                      IF result[c] \in {"ErrTimeout", "ErrContextCanceled"} THEN @ ELSE @ + 1]
    /\ UNCHANGED <<constVars, handler, request, out, result, corr, sawStop, pcall, early, blocked,
                   idVars, netVars, lifeVars, invoked, gens, slog>>

\* RemoteCall: the deferred c.deleteCall(corrID), then the return to the caller.
RemoteCallReturn(c) ==
    /\ Alive("client")
    /\ pc[c] = "ret"
    /\ calls' = calls \ {corr[c]}
    /\ pc' = [pc EXCEPT ![c] = "done"]
    /\ effects' = [effects EXCEPT ![c].del = @ + 1]
    /\ UNCHANGED <<constVars, handler, request, out, result, corr, sawStop, pcall, early, blocked,
                   idVars, netVars, lifeVars, invoked, gens, slog>>

\* ----------------------------------------- Connection.AttemptConnect
\* The steps of connect(), in order, and the outcomes of one invocation
\* ("none": every step succeeded).
ConnectSteps == <<"dial", "channel", "exchange", "queue", "bind", "consume">>
ConnectOutcomes == {"none"} \cup {ConnectSteps[k] : k \in 1..Len(ConnectSteps)}
StepIndex(step) == CHOOSE k \in 1..Len(ConnectSteps) : ConnectSteps[k] = step

\* The text connect() wraps the failing step's error in.
ConnectErrText(step) ==
    CASE step = "dial" -> "amqp.Dial"
      [] step = "channel" -> "c.Connection.Channel"
      [] step = "exchange" -> "c.Connection.Channel"
      [] step = "queue" -> "c.Channel.QueueDeclare"
      [] step = "bind" -> "c.Channel.QueueBind"
      [] step = "consume" -> "c.Channel.Consume"

\* The error connect() returns when step fails: the wrapping text and the
\* failed step as the cause.
ConnectErr(step) == <<ConnectErrText(step), step>>

\* The step of connect() after step ("none": connect() returns nil).
StepAfter(step) ==
    IF StepIndex(step) = Len(ConnectSteps) THEN "none" ELSE ConnectSteps[StepIndex(step) + 1]

\* How one operation of connect() can end: "ok", "err" (an error), or
\* "chclosed": an error of an operation on the channel that leaves the
\* channel closed, as the amqp library does on a channel exception.
OpOutcomes == {"ok", "err", "chclosed"}
OpPossible(step, o) == o = "chclosed" => StepIndex(step) > 2

\* One operation of connect() on Connection cn ending in o: Dial, Channel and
\* Consume store what they returned (nil with an error) in the Connection;
\* the three declarations store nothing.
ConnectOp(cn, step, o) ==
    LET got == IF o = "ok" THEN "live" ELSE "nil"
        ch == IF o = "chclosed" THEN "closed" ELSE cn.Channel
    IN  CASE step = "dial" -> [cn EXCEPT !.Connection = got]
          [] step = "channel" -> [cn EXCEPT !.Channel = got]
          [] step = "consume" -> [cn EXCEPT !.Delivery = got, !.Channel = ch]
          [] OTHER -> [cn EXCEPT !.Channel = ch]

\* connect() on Connection cn when step fail fails with outcome o ("none": no
\* step does): the fields it leaves and, in err, the error it returns (<<>>:
\* nil).  The steps before the failure keep what they stored.
RECURSIVE ConnectFrom(_, _, _, _)
ConnectFrom(cn, step, fail, o) ==
    IF step = "none" THEN [cn EXCEPT !.err = <<>>]
    ELSE IF step = fail THEN [ConnectOp(cn, step, o) EXCEPT !.err = ConnectErr(step)]
    ELSE ConnectFrom(ConnectOp(cn, step, "ok"), StepAfter(step), fail, o)

Connect(cn, fail, o) == ConnectFrom(cn, ConnectSteps[1], fail, o)

LoopContinues_OffByOne(i) == i >= 0

\* AttemptConnect's loop condition "i > 0".
LoopContinues(i) == i > 0

\* AttemptConnect's return value for the err the loop left.
AttemptResult(err) ==
    IF err # <<>> THEN <<"rmq_rpc - AttemptConnect - c.connect">> \o err ELSE <<"nil">>

\* --------------------------------------------------- consumer goroutines
\* What a consumer goroutine that is past its wait point holds: the record it
\* is handling (cur: empty between two records, else that one record), the
\* records of its fetch not handled yet (rest; RabbitMQ receives one delivery
\* at a time), in the client the registry key the lookup found (k), and what
\* it does next (at): "next" takes a record of rest, "status", "body" and
\* "close" are the statements of getCall / handleResponse after the lookup,
\* "reply" is serveCall after the handler.
Frame(at, cur, rest, k) == [at |-> at, cur |-> cur, rest |-> rest, k |-> k]

\* The frame of a goroutine that is done with a record: the records left of
\* its fetch, or none (the goroutine is back at the head of its loop).
Remaining(B) == IF B = {} THEN {} ELSE {Frame("next", {}, B, 0)}

\* What instance i can receive: the client the replies sent to its exchange /
\* reply topic, the server the requests.
Inbound(i) == IF i = "client" THEN {m \in repNet : m.dest = ReplyDest} ELSE reqNet

\* Where the consumer goroutine waits for its next message: the select of the
\* RabbitMQ loop, PollFetches in the Kafka loop.
WaitPoint == IF binding = "kafka" THEN "poll" ELSE "select"

\* Where the consumer goroutines of an instance are, given their frames w,
\* the goroutines started and exited g, and the h of them at the head of the
\* Kafka loop: none is left, one waits for a message, one is about to read
\* the stop channel, or all are handling a message.
LoopPos(w, g, h) ==
    IF g.started - g.exited <= 0 THEN "exited"
    ELSE IF Cardinality(w) + h < g.started - g.exited THEN WaitPoint
    ELSE IF h > 0 THEN "head"
    ELSE "work"

\* The goroutine of instance i holding frame f goes on with the frames next: it
\* handles the next record of its fetch, or, with none left, goes round its
\* loop: the RabbitMQ loop is at its select again, the Kafka loop at its
\* head, where it reads stop before it polls (ConsumerHead).
Finish(i, f, next) ==
    /\ work' = [work EXCEPT ![i] = (@ \ {f}) \cup next]
    /\ heads' = [heads EXCEPT ![i] = IF next = {} /\ binding = "kafka" THEN @ + 1 ELSE @]
    /\ loop' = [loop EXCEPT ![i] = LoopPos(work'[i], gens[i], heads'[i])]
    /\ UNCHANGED gens

\* The steps of the server's consumer loop over one delivery, as logged: the
\* receive from the RabbitMQ delivery stream; then (ServeEvents) the hand-over
\* of a fetched Kafka record or d.Ack(false) of the RabbitMQ delivery, the
\* router lookup and the handler call; then (ReplyEvents) the handler's return
\* and the publish call.
Event(e, m) == <<[ev |-> e, req |-> m]>>

FetchEvents(b, B) ==
    IF b = "kafka" THEN <<>> ELSE Event("recv", CHOOSE m \in B : TRUE)

\* The consumer loop acknowledging after serveCall has looked up and called
\* the handler.
ServeEvents_AckAfter(b, m) ==
    (IF b = "kafka" THEN Event("recv", m) ELSE <<>>)
    \o (IF b = "kafka" /\ (m.handler = "" \/ m.corr = 0 \/ m.replyTo = "")
        THEN <<>> ELSE Event("lookup", m))
    \o (IF ServeCall(b, m).inv THEN Event("invoke", m) ELSE <<>>)
    \o (IF b = "kafka" THEN <<>> ELSE Event("ack", m))

ServeEvents(b, m) ==
    (IF b = "kafka" THEN Event("recv", m) ELSE Event("ack", m))
    \o (IF b = "kafka" /\ (m.handler = "" \/ m.corr = 0 \/ m.replyTo = "")
        THEN <<>> ELSE Event("lookup", m))
    \o (IF ServeCall(b, m).inv THEN Event("invoke", m) ELSE <<>>)

ReplyEvents(b, m) ==
    (IF ServeCall(b, m).inv THEN Event("returned", m) ELSE <<>>)
    \o (IF ServeCall(b, m).pub # {} THEN Event("publish", m) ELSE <<>>)

\* Deliveries taken from the stream whether or not Start has launched the
\* consumer goroutine.
Fetch_BeforeStart(i, B, keep) ==
    /\ Alive(i)
    /\ connLive[i]
    /\ loop[i] \in {WaitPoint, "new"}
    /\ B # {} /\ B \subseteq Inbound(i)
    /\ binding = "rabbitmq" => Cardinality(B) = 1
    /\ IF keep
       THEN /\ i = "client"
            /\ dupCount < scen.dup
            /\ dupCount' = dupCount + 1
            /\ UNCHANGED <<reqNet, repNet>>
       ELSE /\ UNCHANGED dupCount
            /\ IF i = "client"
               THEN repNet' = repNet \ B /\ UNCHANGED reqNet
               ELSE reqNet' = reqNet \ B /\ UNCHANGED repNet
    /\ work' = [work EXCEPT ![i] = @ \cup {Frame("next", {}, B, 0)}]
    /\ loop' = [loop EXCEPT ![i] = IF @ = "new" THEN @
                                   ELSE LoopPos(work'[i], gens[i], heads[i])]
    /\ slog' = IF i = "server" /\ scen.name = "sequence"
               THEN slog \o FetchEvents(binding, B) ELSE slog
    /\ UNCHANGED <<constVars, callerVars, regVars, idVars, stop, connLive, errChan,
                   errBuf, panicked, shutPc, shutRes, disconnects, channel, retries, heads,
                   invoked, effects, gens>>

\* consumer(): the goroutine's wait ends with messages.  RabbitMQ: the select
\* takes "case d, opened := <-conn.Delivery" with one delivery (whether or not
\* stop is closed as well); Kafka: PollFetches returns a fetch without errors
\* that carries the records B.  keep = the transport delivers the same
\* messages again later (at-least-once delivery).
Fetch(i, B, keep) ==
    /\ Alive(i)
    /\ connLive[i]
    /\ loop[i] = WaitPoint
    /\ B # {} /\ B \subseteq Inbound(i)
    /\ binding = "rabbitmq" => Cardinality(B) = 1
    /\ IF keep
       THEN /\ i = "client"
            /\ dupCount < scen.dup
            /\ dupCount' = dupCount + 1
            /\ UNCHANGED <<reqNet, repNet>>
       ELSE /\ UNCHANGED dupCount
            /\ IF i = "client"
               THEN repNet' = repNet \ B /\ UNCHANGED reqNet
               ELSE reqNet' = reqNet \ B /\ UNCHANGED repNet
    /\ work' = [work EXCEPT ![i] = @ \cup {Frame("next", {}, B, 0)}]
    /\ loop' = [loop EXCEPT ![i] = LoopPos(work'[i], gens[i], heads[i])]
    /\ slog' = IF i = "server" /\ scen.name = "sequence"
               THEN slog \o FetchEvents(binding, B) ELSE slog
    /\ UNCHANGED <<constVars, callerVars, regVars, idVars, stop, connLive, errChan,
                   errBuf, panicked, shutPc, shutRes, disconnects, channel, retries, heads,
                   invoked, effects, gens>>

\* ------------------------------------------------- client consumer loop
\* getCall without the "if !ok return": a lookup miss dereferences the nil
\* *pendingCall.
ClientRecv_NoOkCheck(f, m) ==
    /\ Alive("client")
    /\ f \in work["client"] /\ f.cur = {} /\ m \in f.rest
    /\ early' = [c \in Callers |->
                   early[c] \/ (corr[c] = m.corr /\ pc[c] \in {"register", "wait"})]
    /\ UNCHANGED blocked
    /\ LET k == MatchedCall(binding, m, calls) IN
         /\ Finish("client", f, {Frame("status", {m}, f.rest \ {m}, k)})
         /\ panicked' = IF k = 0 THEN [panicked EXCEPT !["client"] = "getCall"]
                        ELSE panicked
    /\ UNCHANGED <<constVars, callerVars, pcall, calls, idVars, netVars, stop, connLive,
                   errChan, errBuf, shutPc, shutRes, disconnects, channel,
                   retries, invoked, effects, slog>>

\* A consumer loop that removes the registry entry of the call it matched.
ClientRecv_DeleteOnMatch(f, m) ==
    /\ Alive("client")
    /\ f \in work["client"] /\ f.cur = {} /\ m \in f.rest
    /\ early' = [c \in Callers |->
                   early[c] \/ (corr[c] = m.corr /\ pc[c] \in {"register", "wait"})]
    /\ UNCHANGED blocked
    /\ LET k == MatchedCall(binding, m, calls) IN
         /\ Finish("client", f, IF k = 0 THEN Remaining(f.rest \ {m})
                                ELSE {Frame("status", {m}, f.rest \ {m}, k)})
         /\ calls' = calls \ {k}
    /\ UNCHANGED <<constVars, callerVars, pcall, idVars, netVars, stop, connLive,
                   errChan, errBuf, panicked, shutPc, shutRes, disconnects, channel,
                   retries, invoked, effects, slog>>

\* Client.consumer() hands a message to getCall / handleResponse (RabbitMQ:
\* after d.Ack(false)), which looks its correlation id up in the registry
\* under the read lock and returns when there is no such key.
ClientRecv(f, m) ==
    /\ Alive("client")
    /\ f \in work["client"] /\ f.cur = {} /\ m \in f.rest
    /\ early' = [c \in Callers |->
                   early[c] \/ (corr[c] = m.corr /\ pc[c] \in {"register", "wait"})]
    /\ UNCHANGED blocked
    /\ LET k == MatchedCall(binding, m, calls) IN
         Finish("client", f, IF k = 0 THEN Remaining(f.rest \ {m})
                             ELSE {Frame("status", {m}, f.rest \ {m}, k)})
    /\ UNCHANGED <<constVars, callerVars, pcall, calls, idVars, netVars, stop, connLive,
                   errChan, errBuf, panicked, shutPc, shutRes, disconnects, channel,
                   retries, invoked, effects, slog>>

\* getCall / handleResponse after the lock is released, one statement at a
\* time: the write of status and the write of body to the pendingCall the
\* lookup returned, neither under a lock, then close(call.done), which panics
\* when the channel is closed already.
GetCall(f) ==
    /\ Alive("client")
    /\ f \in work["client"] /\ f.cur # {}
    /\ LET m == CHOOSE x \in f.cur : TRUE IN
         IF f.at = "status"
         THEN /\ pcall' = [pcall EXCEPT ![f.k].status = ReplyStatus(binding, m)]
              /\ Finish("client", f, {[f EXCEPT !.at = "body"]})
              /\ UNCHANGED panicked
         ELSE IF f.at = "body"
         THEN /\ pcall' = [pcall EXCEPT ![f.k].body = m.body]
              /\ Finish("client", f, {[f EXCEPT !.at = "close"]})
              /\ UNCHANGED panicked
         ELSE /\ pcall' = [pcall EXCEPT ![f.k].done = TRUE]
              /\ panicked' = IF pcall[f.k].done
                             THEN [panicked EXCEPT !["client"] = "getCall"]
                             ELSE panicked
              /\ Finish("client", f, Remaining(f.rest))
    /\ UNCHANGED <<constVars, callerVars, calls, early, blocked, idVars, netVars, stop, connLive,
                   errChan, errBuf, shutPc, shutRes, disconnects, channel, retries,
                   invoked, effects, slog>>

\* ---------------------------------------------------------- server dispatch
\* The consumer loop handing the delivery to "go s.serveCall(&d)": the loop
\* goes on to its next receive while the handler is still running.
ServerRecv_Detached(f, m) ==
    /\ Alive("server")
    /\ f \in work["server"] /\ f.cur = {} /\ m \in f.rest
    /\ invoked' = IF ServeCall(binding, m).inv THEN invoked \cup {m.handler} ELSE invoked
    /\ work' = [work EXCEPT !["server"] = (@ \ {f}) \cup {Frame("reply", {m}, f.rest \ {m}, 0)}]
    /\ gens' = [gens EXCEPT !["server"] = GoConsumer(@)]
    /\ loop' = [loop EXCEPT !["server"] =
                   LoopPos(work'["server"], gens'["server"], heads["server"])]
    /\ slog' = IF scen.name = "sequence" THEN slog \o ServeEvents(binding, m) ELSE slog
    /\ UNCHANGED <<constVars, callerVars, regVars, idVars, netVars, stop, connLive,
                   errChan, errBuf, panicked, shutPc, shutRes, disconnects, channel,
                   retries, heads, effects>>

\* Server.consumer() hands a message to serveCall (RabbitMQ: after
\* d.Ack(false)): the header check (Kafka), the router lookup, and the call of
\* the handler found.
ServerRecv(f, m) ==
    /\ Alive("server")
    /\ f \in work["server"] /\ f.cur = {} /\ m \in f.rest
    /\ invoked' = IF ServeCall(binding, m).inv THEN invoked \cup {m.handler} ELSE invoked
    /\ Finish("server", f, {Frame("reply", {m}, f.rest \ {m}, 0)})
    /\ slog' = IF scen.name = "sequence" THEN slog \o ServeEvents(binding, m) ELSE slog
    /\ UNCHANGED <<constVars, callerVars, regVars, idVars, netVars, stop, connLive,
                   errChan, errBuf, panicked, shutPc, shutRes, disconnects, channel,
                   retries, effects>>

\* serveCall goes on after the handler returned (or was not found): json.Marshal
\* and Server.publish, whose error is only logged.
ServerReply(f) ==
    /\ Alive("server")
    /\ f \in work["server"] /\ f.cur # {}
    /\ LET m == CHOOSE x \in f.cur : TRUE
           r == ServeCall(binding, m)
       IN  /\ repNet' = IF channel["server"] = "live" THEN repNet \cup r.pub ELSE repNet
           /\ panicked' = IF channel["server"] = "nil" /\ r.pub # {}
                          THEN [panicked EXCEPT !["server"] = "publish"]
                          ELSE panicked
           /\ slog' = IF scen.name = "sequence" THEN slog \o ReplyEvents(binding, m) ELSE slog
    /\ Finish("server", f, Remaining(f.rest))
    /\ UNCHANGED <<constVars, callerVars, regVars, idVars, reqNet, dupCount, stop,
                   connLive, errChan, errBuf, shutPc, shutRes, disconnects, channel,
                   retries, invoked, effects>>

\* Server.Start(): go s.consumer().  The new goroutine is at the head of its
\* loop: the select of the RabbitMQ loop, the stop check of the Kafka loop.
ServerStart ==
    /\ Alive("server")
    /\ loop["server"] = "new"
    /\ gens' = [gens EXCEPT !["server"] = GoConsumer(@)]
    /\ heads' = [heads EXCEPT !["server"] = IF binding = "kafka" THEN @ + 1 ELSE @]
    /\ loop' = [loop EXCEPT !["server"] =
                   LoopPos(work["server"], gens'["server"], heads'["server"])]
    /\ UNCHANGED <<constVars, callerVars, regVars, idVars, netVars, stop,
                   connLive, errChan, errBuf, panicked, shutPc, shutRes, disconnects,
                   channel, retries, work, invoked, effects, slog>>

\* ------------------------------------------- lifecycle, client and server
\* consumer() (RabbitMQ): case <-stop.
ConsumerStop(i) ==
    /\ Alive(i)
    /\ binding = "rabbitmq"
    /\ loop[i] = "select"
    /\ StopClosed(i)
    /\ gens' = [gens EXCEPT ![i] = ExitConsumer(@)]
    /\ loop' = [loop EXCEPT ![i] = LoopPos(work[i], gens'[i], heads[i])]
    /\ UNCHANGED <<constVars, callerVars, regVars, idVars, netVars, stop,
                   connLive, errChan, errBuf, panicked, shutPc, shutRes, disconnects,
                   channel, retries, heads, work, invoked, effects, slog>>

\* The calls blocked in RemoteCall's wait select, their reply not yet handed
\* over, at the moment instance i is shut down or loses its transport
\* (history).
BlockedAt(i) ==
    [c \in Callers |->
        blocked[c] \/ (i = "client" /\ pc[c] = "wait" /\ ~pcall[corr[c]].done)]

\* consumer() (Kafka): PollFetches returns a fetch with errors (the client was
\* closed, or a partition's fetch failed); each error is offered to the error
\* channel without blocking, and the loop goes round to its head
\* ("continue"): the records B that the fetch carried next to the errors are
\* not handled.
ConsumerPollError(i, B) ==
    /\ Alive(i)
    /\ binding = "kafka"
    /\ loop[i] = "poll"
    /\ B \subseteq Inbound(i)
    /\ \/ ~connLive[i] /\ B = {} /\ UNCHANGED <<disconnects, blocked>>
       \/ /\ connLive[i]
          /\ disconnects[i] < scen.disc[i]
          /\ disconnects' = [disconnects EXCEPT ![i] = @ + 1]
          /\ blocked' = BlockedAt(i)
    /\ IF i = "client"
       THEN repNet' = repNet \ B /\ UNCHANGED reqNet
       ELSE reqNet' = reqNet \ B /\ UNCHANGED repNet
    /\ errBuf' = [errBuf EXCEPT ![i] = 1]
    /\ heads' = [heads EXCEPT ![i] = @ + 1]
    /\ loop' = [loop EXCEPT ![i] = LoopPos(work[i], gens[i], heads'[i])]
    /\ UNCHANGED <<constVars, callerVars, pcall, calls, early, idVars, dupCount, stop,
                   connLive, errChan, panicked, shutPc, shutRes, channel, retries,
                   work, invoked, effects, gens, slog>>

\* consumer() (Kafka), head of the loop: the select on the stop channel with
\* its default case.  The goroutine returns when stop is closed and goes on
\* to PollFetches otherwise.
ConsumerHead(i) ==
    /\ Alive(i)
    /\ binding = "kafka"
    /\ heads[i] > 0
    /\ heads' = [heads EXCEPT ![i] = @ - 1]
    /\ gens' = [gens EXCEPT ![i] = IF StopClosed(i) THEN ExitConsumer(@) ELSE @]
    /\ loop' = [loop EXCEPT ![i] = LoopPos(work[i], gens'[i], heads'[i])]
    /\ UNCHANGED <<constVars, callerVars, regVars, idVars, netVars, stop,
                   connLive, errChan, errBuf, panicked, shutPc, shutRes, disconnects,
                   channel, retries, work, invoked, effects, slog>>

\* consumer() (RabbitMQ): the delivery stream is closed; reconnect() begins
\* with close(stop), which panics on a closed channel, and enters
\* AttemptConnect ("for i := c.Attempts; ...").
ConsumerStreamClosed(i) ==
    /\ Alive(i)
    /\ binding = "rabbitmq"
    /\ loop[i] = "select"
    /\ ~connLive[i]
    /\ IF StopClosed(i)
       THEN /\ panicked' = [panicked EXCEPT ![i] = "reconnect"]
            /\ UNCHANGED <<stop, loop, retries>>
       ELSE /\ stop' = [stop EXCEPT ![i] = "reconnect"]
            /\ retries' = [retries EXCEPT ![i] = ReconnectAttempts]
            /\ loop' = [loop EXCEPT ![i] = "attempt"]
            /\ UNCHANGED panicked
    /\ UNCHANGED <<constVars, callerVars, regVars, idVars, netVars, connLive, errChan,
                   errBuf, shutPc, shutRes, disconnects, channel, work, heads, histVars>>

\* reconnect() (through AttemptConnect): the loop condition holds and
\* connect() is entered.
ReconnectAttempt(i) ==
    /\ Alive(i)
    /\ loop[i] = "attempt"
    /\ LoopContinues(retries[i])
    /\ loop' = [loop EXCEPT ![i] = ConnectSteps[1]]
    /\ UNCHANGED <<constVars, callerVars, regVars, idVars, netVars, stop, connLive, errChan,
                   errBuf, panicked, shutPc, shutRes, disconnects, channel, retries, heads, work,
                   histVars>>

\* reconnect() (through AttemptConnect and connect()): one operation of
\* connect(), which stores what Dial, Channel and Consume returned in the
\* Connection the publishers read their channel from.  After the last
\* operation AttemptConnect breaks out of its loop and returns nil; after a
\* failure connect() returns and AttemptConnect logs and sleeps.
ReconnectConnect(i, o) ==
    /\ Alive(i)
    /\ loop[i] \in ConnectOutcomes \ {"none"}
    /\ OpPossible(loop[i], o)
    /\ LET r == ConnectOp([Connection |-> "closed", Channel |-> channel[i],
                           Delivery |-> IF connLive[i] THEN "live" ELSE "closed"],
                          loop[i], o)
       IN  /\ channel' = [channel EXCEPT ![i] = r.Channel]
           /\ connLive' = [connLive EXCEPT ![i] = r.Delivery = "live"]
    /\ loop' = [loop EXCEPT ![i] = IF o # "ok" THEN "sleep"
                                   ELSE IF StepAfter(@) = "none" THEN "install"
                                   ELSE StepAfter(@)]
    /\ UNCHANGED <<constVars, callerVars, regVars, idVars, netVars, stop, errChan, errBuf,
                   panicked, shutPc, shutRes, disconnects, retries, work, heads, histVars>>

\* reconnect() (through AttemptConnect): time.Sleep(c.WaitTime) after a failed
\* connect() is over, and the loop counts down ("i--").
ReconnectSleep(i) ==
    /\ Alive(i)
    /\ loop[i] = "sleep"
    /\ retries' = [retries EXCEPT ![i] = @ - 1]
    /\ loop' = [loop EXCEPT ![i] = "attempt"]
    /\ UNCHANGED <<constVars, callerVars, regVars, idVars, netVars, stop, connLive, errChan,
                   errBuf, panicked, shutPc, shutRes, disconnects, channel, work, heads,
                   histVars>>

\* reconnect() (through AttemptConnect): the loop condition fails.
\* AttemptConnect returns the error of the last connect(), wrapped, and
\* reconnect() arrives at "c.error <- err"; when the loop made no attempt the
\* error is nil and reconnect() goes on as after a successful connect().
ReconnectFail(i) ==
    /\ Alive(i)
    /\ loop[i] = "attempt"
    /\ ~LoopContinues(retries[i])
    /\ loop' = [loop EXCEPT ![i] = IF retries[i] = ReconnectAttempts THEN "install"
                                   ELSE "senderr"]
    /\ UNCHANGED <<constVars, callerVars, regVars, idVars, netVars, stop, connLive, errChan,
                   errBuf, panicked, shutPc, shutRes, disconnects, channel, retries, work,
                   heads, histVars>>

\* consumer() going round its loop again after reconnect() returned, next to
\* the consumer that reconnect() started.
ReconnectInstall_NoReturn(i) ==
    /\ Alive(i)
    /\ loop[i] = "install"
    /\ stop' = [stop EXCEPT ![i] = "open"]
    /\ gens' = [gens EXCEPT ![i] = GoConsumer(@)]
    /\ loop' = [loop EXCEPT ![i] = "select"]
    /\ UNCHANGED <<constVars, callerVars, regVars, idVars, netVars, connLive, errChan,
                   errBuf, panicked, shutPc, shutRes, disconnects, channel, retries, heads,
                   work, invoked, effects, slog>>

\* reconnect() after AttemptConnect returned nil: a fresh stop channel is
\* installed and a new consumer goroutine started; the old one returns.
ReconnectInstall(i) ==
    /\ Alive(i)
    /\ loop[i] = "install"
    /\ stop' = [stop EXCEPT ![i] = "open"]
    /\ gens' = [gens EXCEPT ![i] = ExitConsumer(GoConsumer(@))]
    /\ loop' = [loop EXCEPT ![i] = "select"]
    /\ UNCHANGED <<constVars, callerVars, regVars, idVars, netVars, connLive, errChan,
                   errBuf, panicked, shutPc, shutRes, disconnects, channel, retries, heads,
                   work, invoked, effects, slog>>

\* The application receives from Notify(): it unblocks reconnect()'s
\* "error <- err" (RabbitMQ) or empties the buffer (Kafka).
NotifyRecv(i) ==
    /\ Alive(i)
    /\ \/ loop[i] = "senderr" /\ loop' = [loop EXCEPT ![i] = "closeerr"] /\ UNCHANGED errBuf
       \/ errBuf[i] > 0 /\ errBuf' = [errBuf EXCEPT ![i] = 0] /\ UNCHANGED loop
    /\ UNCHANGED <<constVars, callerVars, regVars, idVars, netVars, stop,
                   connLive, errChan, panicked, shutPc, shutRes, disconnects,
                   channel, retries, heads, work, histVars>>

\* reconnect() without the return that ends its failure branch: after
\* close(error) it installs a fresh stop channel and starts a consumer.
ReconnectCloseError_NoReturn(i) ==
    /\ Alive(i)
    /\ loop[i] = "closeerr"
    /\ errChan' = [errChan EXCEPT ![i] = "closed"]
    /\ stop' = [stop EXCEPT ![i] = "open"]
    /\ loop' = [loop EXCEPT ![i] = "select"]
    /\ gens' = [gens EXCEPT ![i] = ExitConsumer(GoConsumer(@))]
    /\ UNCHANGED <<constVars, callerVars, regVars, idVars, netVars,
                   connLive, errBuf, panicked, shutPc, shutRes, disconnects, channel,
                   retries, heads, work, invoked, effects, slog>>

\* reconnect(): close(error) after the error was handed over.
ReconnectCloseError(i) ==
    /\ Alive(i)
    /\ loop[i] = "closeerr"
    /\ errChan' = [errChan EXCEPT ![i] = "closed"]
    /\ loop' = [loop EXCEPT ![i] = "failed"]
    /\ gens' = [gens EXCEPT ![i] = ExitConsumer(@)]
    /\ UNCHANGED <<constVars, callerVars, regVars, idVars, netVars, stop,
                   connLive, errBuf, panicked, shutPc, shutRes, disconnects, channel,
                   retries, heads, work, invoked, effects, slog>>

\* The broker connection of a RabbitMQ instance drops: its delivery stream
\* closes and its channel rejects every publish.
Disconnect(i) ==
    /\ Alive(i)
    /\ binding = "rabbitmq"
    /\ connLive[i]
    /\ disconnects[i] < scen.disc[i]
    /\ connLive' = [connLive EXCEPT ![i] = FALSE]
    /\ channel' = [channel EXCEPT ![i] = "closed"]
    /\ disconnects' = [disconnects EXCEPT ![i] = @ + 1]
    /\ blocked' = BlockedAt(i)
    /\ UNCHANGED <<constVars, callerVars, pcall, calls, early, idVars, netVars, stop, loop,
                   errChan, errBuf, panicked, shutPc, shutRes, retries, heads, work, histVars>>

\* Shutdown() without the select on the error channel.
ShutdownBegin_NoErrorSelect(i) ==
    /\ Alive(i)
    /\ shutPc[i] = "idle"
    /\ Len(shutRes[i]) < scen.shut[i]
    /\ IF StopClosed(i)
       THEN /\ panicked' = [panicked EXCEPT ![i] = "Shutdown"]
            /\ UNCHANGED <<loop, errBuf, stop, shutRes, shutPc>>
       ELSE /\ stop' = [stop EXCEPT ![i] = "Shutdown"]
            /\ shutPc' = [shutPc EXCEPT ![i] = "closing"]
            /\ UNCHANGED <<loop, errBuf, panicked, shutRes>>
    /\ blocked' = IF stop'[i] # stop[i] THEN BlockedAt(i) ELSE blocked
    /\ UNCHANGED <<constVars, callerVars, pcall, calls, early, idVars, netVars, connLive,
                   errChan, disconnects, channel, retries, heads, work, histVars>>

\* Shutdown(): the select on the error channel, then close(stop).
ShutdownBegin(i) ==
    /\ Alive(i)
    /\ shutPc[i] = "idle"
    /\ Len(shutRes[i]) < scen.shut[i]
    /\ IF errChan[i] = "closed"
       THEN /\ shutRes' = [shutRes EXCEPT ![i] = Append(@, "nil")]
            /\ UNCHANGED <<loop, errBuf, stop, panicked, shutPc>>
       ELSE IF loop[i] = "senderr"
       THEN /\ shutRes' = [shutRes EXCEPT ![i] = Append(@, "nil")]
            /\ loop' = [loop EXCEPT ![i] = "closeerr"]
            /\ UNCHANGED <<errBuf, stop, panicked, shutPc>>
       ELSE IF errBuf[i] > 0
       THEN /\ shutRes' = [shutRes EXCEPT ![i] = Append(@, "nil")]
            /\ errBuf' = [errBuf EXCEPT ![i] = 0]
            /\ UNCHANGED <<loop, stop, panicked, shutPc>>
       ELSE IF StopClosed(i)
       THEN /\ panicked' = [panicked EXCEPT ![i] = "Shutdown"]
            /\ UNCHANGED <<loop, errBuf, stop, shutRes, shutPc>>
       ELSE /\ stop' = [stop EXCEPT ![i] = "Shutdown"]
            /\ shutPc' = [shutPc EXCEPT ![i] = "closing"]
            /\ UNCHANGED <<loop, errBuf, panicked, shutRes>>
    /\ blocked' = IF stop'[i] # stop[i] THEN BlockedAt(i) ELSE blocked
    /\ UNCHANGED <<constVars, callerVars, pcall, calls, early, idVars, netVars, connLive,
                   errChan, disconnects, channel, retries, heads, work, histVars>>

\* Shutdown(): (RabbitMQ: after time.Sleep(timeout)) close the transport
\* handle and return.  amqp's Connection.Close on a closed connection errors;
\* kafka's Connection.Close returns nothing.
ShutdownClose(i) ==
    /\ Alive(i)
    /\ shutPc[i] = "closing"
    /\ shutPc' = [shutPc EXCEPT ![i] = "idle"]
    /\ connLive' = [connLive EXCEPT ![i] = FALSE]
    /\ channel' = [channel EXCEPT ![i] = IF @ = "nil" THEN @ ELSE "closed"]
    /\ shutRes' = [shutRes EXCEPT ![i] =
                     Append(@, IF binding = "rabbitmq" /\ ~connLive[i] THEN "ErrClose" ELSE "nil")]
    /\ UNCHANGED <<constVars, callerVars, regVars, idVars, netVars, stop, loop,
                   errChan, errBuf, panicked, disconnects, retries, heads, work, histVars>>

\* The sets of messages a receive can carry, and the messages the goroutines
\* of an instance hold without having handled them.
Batches == SUBSET (reqNet \cup repNet)
Pending(i) == UNION {f.rest : f \in work[i]}

Next ==
    \/ \E c \in Callers, a \in CallInputs : RemoteCallBegin(c, a[1], a[2])
    \/ \E c \in Callers : RemoteCallRecheck(c)
    \/ \E c \in Callers : RemoteCallPublish(c)
    \/ \E c \in Callers : RemoteCallRegister(c)
    \/ \E c \in Callers : RemoteCallTimeout(c)
    \/ \E c \in Callers : RemoteCallCtxDone(c)
    \/ \E c \in Callers : RemoteCallDone(c)
    \/ \E c \in Callers : RemoteCallDecode(c)
    \/ \E c \in Callers : RemoteCallReturn(c)
    \/ \E i \in Insts, B \in Batches, keep \in BOOLEAN : Fetch(i, B, keep)
    \/ \E f \in work["client"], m \in Pending("client") : ClientRecv(f, m)
    \/ \E f \in work["client"] : GetCall(f)
    \/ \E f \in work["server"], m \in Pending("server") : ServerRecv(f, m)
    \/ \E f \in work["server"] : ServerReply(f)
    \/ ServerStart
    \/ \E i \in Insts : ConsumerStop(i)
    \/ \E i \in Insts, B \in Batches : ConsumerPollError(i, B)
    \/ \E i \in Insts : ConsumerHead(i)
    \/ \E i \in Insts : ConsumerStreamClosed(i)
    \/ \E i \in Insts : ReconnectAttempt(i)
    \/ \E i \in Insts, o \in OpOutcomes : ReconnectConnect(i, o)
    \/ \E i \in Insts : ReconnectSleep(i)
    \/ \E i \in Insts : ReconnectFail(i)
    \/ \E i \in Insts : ReconnectInstall(i)
    \/ \E i \in Insts : NotifyRecv(i)
    \/ \E i \in Insts : ReconnectCloseError(i)
    \/ \E i \in Insts : Disconnect(i)
    \/ \E i \in Insts : ShutdownBegin(i)
    \/ \E i \in Insts : ShutdownClose(i)

Spec == Init /\ [][Next]_vars

\* The timer is fair and every step of RemoteCall returns: each caller
\* goroutine that can take a step eventually takes one.
CallerStep(c) ==
    \/ RemoteCallRecheck(c)
    \/ RemoteCallPublish(c)
    \/ RemoteCallRegister(c)
    \/ RemoteCallTimeout(c)
    \/ RemoteCallDone(c)
    \/ RemoteCallDecode(c)
    \/ RemoteCallReturn(c)

SpecLive == Init /\ [][Next]_vars /\ \A c \in Callers : WF_vars(CallerStep(c))

\* The consumer goroutine of an instance is scheduled fairly: every step that
\* it can take by itself it eventually takes.  A send on the unbuffered error
\* channel is not such a step: it needs the application to receive
\* (NotifyRecv, or the select at the head of Shutdown).
SupervisorStep(i) ==
    \/ ConsumerStop(i)
    \/ ConsumerHead(i)
    \/ ConsumerStreamClosed(i)
    \/ ReconnectAttempt(i)
    \/ \E o \in OpOutcomes : ReconnectConnect(i, o)
    \/ ReconnectSleep(i)
    \/ ReconnectFail(i)
    \/ ReconnectInstall(i)
    \/ ReconnectCloseError(i)

SpecSupervisor == Init /\ [][Next]_vars /\ \A i \in Insts : WF_vars(SupervisorStep(i))

\* ------------------------------- Connection.AttemptConnect, as a call
AttemptsRange == -1..MaxAttempts
GroupIDs == {"", "rpc-servers"}

rpcVars == <<binding, scen, callerVars, regVars, idVars, netVars, lifeVars, histVars>>

\* AttemptConnect(): "var err error; for i := c.Attempts; ...".
AttemptConnectBegin ==
    /\ binding = "rabbitmq"
    /\ conn.pc = "idle"
    /\ conn.runs < MaxConnRuns
    /\ conn' = [conn EXCEPT !.pc = "loop", !.i = conn.Attempts, !.err = <<>>,
                            !.trace = <<>>, !.res = <<>>, !.runs = @ + 1]
    /\ UNCHANGED <<rpcVars, ctor>>

\* AttemptConnect(): the loop condition holds and connect() is entered.
AttemptConnectIterate ==
    /\ conn.pc = "loop"
    /\ LoopContinues(conn.i)
    /\ conn' = [conn EXCEPT !.pc = ConnectSteps[1]]
    /\ UNCHANGED <<rpcVars, ctor>>

\* A loop that goes on to the next iteration after a successful connect().
ConnectStep_NoBreak(o) ==
    /\ conn.pc \in ConnectOutcomes \ {"none"}
    /\ OpPossible(conn.pc, o)
    /\ LET r == ConnectOp(conn, conn.pc, o) IN
         conn' = IF o # "ok"
                 THEN [r EXCEPT !.err = ConnectErr(conn.pc), !.trace = Append(@, conn.pc),
                                !.pc = "sleep"]
                 ELSE IF StepAfter(conn.pc) = "none"
                 THEN [r EXCEPT !.err = <<>>, !.trace = Append(@, "none"), !.pc = "sleep"]
                 ELSE [r EXCEPT !.pc = StepAfter(conn.pc)]
    /\ UNCHANGED <<rpcVars, ctor>>

\* connect(): one of its operations, which stores its result in the
\* Connection.  A failure makes connect() return the wrapped error, and
\* AttemptConnect logs and sleeps; after the last operation connect() returns
\* nil and AttemptConnect breaks.
ConnectStep(o) ==
    /\ conn.pc \in ConnectOutcomes \ {"none"}
    /\ OpPossible(conn.pc, o)
    /\ LET r == ConnectOp(conn, conn.pc, o) IN
         conn' = IF o # "ok"
                 THEN [r EXCEPT !.err = ConnectErr(conn.pc), !.trace = Append(@, conn.pc),
                                !.pc = "sleep"]
                 ELSE IF StepAfter(conn.pc) = "none"
                 THEN [r EXCEPT !.err = <<>>, !.trace = Append(@, "none"), !.pc = "after"]
                 ELSE [r EXCEPT !.pc = StepAfter(conn.pc)]
    /\ UNCHANGED <<rpcVars, ctor>>

\* AttemptConnect(): time.Sleep(c.WaitTime) is over, and the loop counts down.
AttemptConnectSleep ==
    /\ conn.pc = "sleep"
    /\ conn' = [conn EXCEPT !.i = @ - 1, !.pc = "loop"]
    /\ UNCHANGED <<rpcVars, ctor>>

\* AttemptConnect(): the loop is over; wrap err or return nil.
AttemptConnectReturn ==
    /\ \/ conn.pc = "after"
       \/ conn.pc = "loop" /\ ~LoopContinues(conn.i)
    /\ conn' = [conn EXCEPT !.pc = "idle", !.res = AttemptResult(conn.err)]
    /\ UNCHANGED <<rpcVars, ctor>>

\* ------------------------------------------------- Kafka server.New
\* What conn.Connect left behind when New called it: "client" is a nil error
\* with conn.Client set, "err" a non-nil error, and "noclient" a nil error
\* with conn.Client still nil, which is what Connect returns when its loop
\* never runs (MaxRetries < 0, see KafkaConnectReturn).
KafkaConnects == {"client", "noclient", "err"}

KafkaNew_NoGroupCheck(groupID, connect) ==
    IF connect = "err"
    THEN [called |-> TRUE, kind |-> "server", groupID |-> groupID,
          connectOk |-> FALSE, consumer |-> FALSE, server |-> "nil",
          err |-> "kafka_rpc server - NewServer - s.conn.Connect", connects |-> 1,
          panic |-> FALSE]
    ELSE IF connect = "noclient"
    THEN [called |-> TRUE, kind |-> "server", groupID |-> groupID,
          connectOk |-> TRUE, consumer |-> FALSE, server |-> "none", err |-> "none",
          connects |-> 1, panic |-> TRUE]
    ELSE [called |-> TRUE, kind |-> "server", groupID |-> groupID,
          connectOk |-> TRUE, consumer |-> FALSE, server |-> "server", err |-> "nil",
          connects |-> 1, panic |-> FALSE]

\* server.New(cfg, ...) of the Kafka binding with cfg.GroupID = groupID, for
\* each outcome of conn.Connect: the (*Server, error) returned and the number
\* of conn.Connect calls made.  After a nil error New calls
\* s.conn.Client.AddConsumeTopics, which panics on a nil Client: New then
\* returns nothing (server and err "none").
KafkaNew(groupID, connect) ==
    IF groupID = ""
    THEN [called |-> TRUE, kind |-> "server", groupID |-> groupID,
          connectOk |-> FALSE, consumer |-> FALSE, server |-> "nil",
          err |-> "kafka_rpc server - NewServer - GroupID is required for server",
          connects |-> 0, panic |-> FALSE]
    ELSE IF connect = "err"
    THEN [called |-> TRUE, kind |-> "server", groupID |-> groupID,
          connectOk |-> FALSE, consumer |-> FALSE, server |-> "nil",
          err |-> "kafka_rpc server - NewServer - s.conn.Connect", connects |-> 1,
          panic |-> FALSE]
    ELSE IF connect = "noclient"
    THEN [called |-> TRUE, kind |-> "server", groupID |-> groupID,
          connectOk |-> TRUE, consumer |-> FALSE, server |-> "none", err |-> "none",
          connects |-> 1, panic |-> TRUE]
    ELSE [called |-> TRUE, kind |-> "server", groupID |-> groupID,
          connectOk |-> TRUE, consumer |-> FALSE, server |-> "server", err |-> "nil",
          connects |-> 1, panic |-> FALSE]

NewKafkaServer(groupID, connect) ==
    /\ binding = "kafka"
    /\ ctor' = KafkaNew(groupID, connect)
    /\ UNCHANGED <<rpcVars, conn>>

\* client.New(cfg, ...) of the Kafka binding: an empty GroupID is replaced by
\* a generated one; after a nil error of Connect New calls
\* c.conn.Client.AddConsumeTopics, which panics on a nil Client, and only then
\* starts the consumer goroutine.
GeneratedGroupID == "rpc-client-uuid"

KafkaNewClient(groupID, connect) ==
    LET g == IF groupID = "" THEN GeneratedGroupID ELSE groupID IN
    IF connect = "err"
    THEN [called |-> TRUE, kind |-> "client", groupID |-> g, connectOk |-> FALSE,
          consumer |-> FALSE, server |-> "nil",
          err |-> "kafka_rpc client - NewClient - c.conn.Connect", connects |-> 1,
          panic |-> FALSE]
    ELSE IF connect = "noclient"
    THEN [called |-> TRUE, kind |-> "client", groupID |-> g, connectOk |-> TRUE,
          consumer |-> FALSE, server |-> "none", err |-> "none", connects |-> 1,
          panic |-> TRUE]
    ELSE [called |-> TRUE, kind |-> "client", groupID |-> g, connectOk |-> TRUE,
          consumer |-> TRUE, server |-> "client", err |-> "nil", connects |-> 1,
          panic |-> FALSE]

NewKafkaClient(groupID, connect) ==
    /\ binding = "kafka"
    /\ ctor' = KafkaNewClient(groupID, connect)
    /\ UNCHANGED <<rpcVars, conn>>

\* ------------------------------------- RabbitMQ client.New / server.New
\* A constructor that ignores the error of AttemptConnect.
RmqNew_IgnoreError(kind, res) ==
    [called |-> TRUE, kind |-> kind, groupID |-> "", connectOk |-> res = <<"nil">>,
     consumer |-> kind = "client", server |-> kind, err |-> "nil", connects |-> 1,
     panic |-> FALSE]

\* client.New / server.New of the RabbitMQ binding, res being what
\* conn.AttemptConnect() returned: the instance and error returned, and whether
\* "go c.consumer()" ran (the server's consumer is started by Start).
RmqNew(kind, res) ==
    IF res # <<"nil">>
    THEN [called |-> TRUE, kind |-> kind, groupID |-> "", connectOk |-> FALSE,
          consumer |-> FALSE, server |-> "nil",
          err |-> IF kind = "client"
                  THEN "rmq_rpc client - NewClient - c.conn.AttemptConnect"
                  ELSE "rmq_rpc server - NewServer - s.conn.AttemptConnect",
          connects |-> 1, panic |-> FALSE]
    ELSE [called |-> TRUE, kind |-> kind, groupID |-> "", connectOk |-> TRUE,
          consumer |-> kind = "client", server |-> kind, err |-> "nil", connects |-> 1,
     panic |-> FALSE]

\* New returns once the AttemptConnect call it made on its Connection has.
NewRmq(kind) ==
    /\ binding = "rabbitmq"
    /\ conn.pc = "idle" /\ conn.runs = 1
    /\ ~ctor.called
    /\ ctor' = RmqNew(kind, conn.res)
    /\ UNCHANGED <<rpcVars, conn>>

InitConn ==
    /\ Constructed({})
    /\ scen.name = "rpc"
    /\ conn \in {NewConnection(n) : n \in AttemptsRange}
    /\ ctor = NoCtor

NextConn ==
    \/ AttemptConnectBegin
    \/ AttemptConnectIterate
    \/ \E o \in OpOutcomes : ConnectStep(o)
    \/ AttemptConnectSleep
    \/ AttemptConnectReturn
    \/ \E g \in GroupIDs, k \in KafkaConnects : NewKafkaServer(g, k)
    \/ \E g \in GroupIDs, k \in KafkaConnects : NewKafkaClient(g, k)
    \/ \E kind \in Insts : NewRmq(kind)

SpecConn == InitConn /\ [][NextConn]_vars

\* ------------------------------------------- kafka.Connection.Connect
\* kafka.NewConnection(cfg) with cfg.MaxRetries = n ("if cfg.MaxRetries == 0
\* { cfg.MaxRetries = 3 }"); pc/i/err/trace/res/ctx describe the Connect call
\* on it: trace holds the outcome of each kgo.NewClient call ("none": success),
\* ctx what the select between two attempts found ("done": ctx.Done() ready).
DefaultMaxRetries == 3
MaxCfgRetries == 2
CfgRetriesRange == -1..MaxCfgRetries
NewClientOutcomes == {"none", "invalid-option", "no-seed-brokers"}

KafkaNewConnection(n) ==
    [MaxRetries |-> IF n = 0 THEN DefaultMaxRetries ELSE n, Client |-> "nil",
     pc |-> "idle", i |-> 0, err |-> <<>>, trace |-> <<>>, res |-> <<>>, ctx |-> "live"]

\* Connect's return value after the loop.
KafkaConnectResult(err) ==
    IF err # <<>> THEN <<"kafka - Connect - failed after attempts">> \o err ELSE <<"nil">>

\* Connect(ctx): "var err error; for i := 0; ...".
KafkaConnectBegin ==
    /\ binding = "kafka"
    /\ conn.pc = "idle"
    /\ conn' = [conn EXCEPT !.pc = "loop"]
    /\ UNCHANGED <<rpcVars, ctor>>

\* One iteration up to its select: c.Client, err = kgo.NewClient(opts...);
\* return nil on success; wait before the next attempt if there is one.
KafkaConnectAttempt(outcome) ==
    /\ conn.pc = "loop"
    /\ conn.i <= conn.MaxRetries
    /\ conn' = IF outcome = "none"
               THEN [conn EXCEPT !.Client = "live", !.err = <<>>, !.trace = Append(@, outcome),
                                 !.res = <<"nil">>, !.pc = "returned"]
               ELSE [conn EXCEPT !.Client = "nil", !.err = <<outcome>>,
                                 !.trace = Append(@, outcome),
                                 !.i = IF conn.i < conn.MaxRetries THEN @ ELSE @ + 1,
                                 !.pc = IF conn.i < conn.MaxRetries THEN "wait" ELSE "loop"]
    /\ UNCHANGED <<rpcVars, ctor>>

\* A wait between attempts that does not look at ctx.
KafkaConnectWait_NoCtx(ctxDone) ==
    /\ conn.pc = "wait"
    /\ conn' = [conn EXCEPT !.ctx = IF ctxDone THEN "done" ELSE "live",
                            !.i = @ + 1, !.pc = "loop"]
    /\ UNCHANGED <<rpcVars, ctor>>

\* The select between two attempts: ctx.Done() (return ctx.Err()) or
\* time.After(c.RetryDelay).
KafkaConnectWait(ctxDone) ==
    /\ conn.pc = "wait"
    /\ conn' = IF ctxDone
               THEN [conn EXCEPT !.ctx = "done", !.res = <<"ctx.Err">>, !.pc = "returned"]
               ELSE [conn EXCEPT !.i = @ + 1, !.pc = "loop"]
    /\ UNCHANGED <<rpcVars, ctor>>

\* The loop is over: wrap the last error, or return nil when there is none.
KafkaConnectReturn ==
    /\ conn.pc = "loop"
    /\ conn.i > conn.MaxRetries
    /\ conn' = [conn EXCEPT !.res = KafkaConnectResult(conn.err), !.pc = "returned"]
    /\ UNCHANGED <<rpcVars, ctor>>

InitKafkaConn ==
    /\ Constructed({})
    /\ scen.name = "rpc"
    /\ binding = "kafka"
    /\ conn \in {KafkaNewConnection(n) : n \in CfgRetriesRange}
    /\ ctor = NoCtor

NextKafkaConn ==
    \/ KafkaConnectBegin
    \/ \E outcome \in NewClientOutcomes : KafkaConnectAttempt(outcome)
    \/ \E ctxDone \in BOOLEAN : KafkaConnectWait(ctxDone)
    \/ KafkaConnectReturn

SpecKafkaConn == InitKafkaConn /\ [][NextKafkaConn]_vars

\* ------------------------------------------------ dispatch of any request
\* The request envelopes a publisher can put on the server's request stream:
\* any handler name, correlation id and reply destination, each possibly
\* missing (empty string, id 0), with an empty or a JSON body.
Envelopes ==
    [handler : Router \cup {"nosuch", ""},
     corr : {0} \cup CorrIDs,
     replyTo : {"", ReplyDest},
     body : {<<>>, Digits(7)}]

Complete(m) == m.handler # "" /\ m.corr # 0 /\ m.replyTo # ""

InitDispatch ==
    /\ \E m \in Envelopes : Constructed({m})
    /\ scen.name = "rpc"
    /\ conn = NewConnection(DefaultAttempts)
    /\ ctor = NoCtor

NextDispatch ==
    \/ ConsumerHead("server")
    \/ \E B \in Batches : Fetch("server", B, FALSE)
    \/ \E f \in work["server"], m \in Pending("server") : ServerRecv(f, m)
    \/ \E f \in work["server"] : ServerReply(f)

SpecDispatch == InitDispatch /\ [][NextDispatch]_vars

\* --------------------------------------------- replies of any status
\* One RemoteCall, with any handler name (the empty one included), and a
\* publisher on the broker that answers a waiting call with a reply of any
\* status and body, next to the server.
ReplyScen == [name |-> "reply", calls |-> LifeCalls, dup |-> 0, shut |-> Quiet, disc |-> Quiet]

\* Replies on their way to the client or held by its consumer loop, at most.
MaxInFlight == 2

ReplyInputs == {<<"echo", 7>>, <<"nosuch", 7>>, <<"", 7>>}
ForeignStatuses == {"", "v2-partial", Success}
ForeignBodies == {<<>>, Digits(12)}

\* A delivery with status st and body arrives on the client's reply stream,
\* carrying the correlation id of a call that is waiting.
ForeignReply(c, st, body) ==
    /\ pc[c] = "wait"
    /\ ~pcall[corr[c]].done
    /\ Cardinality(repNet \cup UNION {f.cur \cup f.rest : f \in work["client"]}) < MaxInFlight
    /\ repNet' = repNet \cup {[corr |-> corr[c], status |-> st, body |-> body,
                               dest |-> ReplyDest]}
    /\ UNCHANGED <<constVars, callerVars, regVars, idVars, reqNet, dupCount, lifeVars,
                   histVars>>

InitReply ==
    /\ ConstructedIn({ReplyScen}, {})
    /\ conn = NewConnection(DefaultAttempts)
    /\ ctor = NoCtor

NextReply ==
    \/ \E c \in Callers, a \in ReplyInputs : RemoteCallBegin(c, a[1], a[2])
    \/ \E c \in Callers : RemoteCallPublish(c)
    \/ \E c \in Callers : RemoteCallRegister(c)
    \/ \E c \in Callers : RemoteCallTimeout(c)
    \/ \E c \in Callers : RemoteCallCtxDone(c)
    \/ \E c \in Callers : RemoteCallDone(c)
    \/ \E c \in Callers : RemoteCallDecode(c)
    \/ \E c \in Callers : RemoteCallReturn(c)
    \/ \E c \in Callers, st \in ForeignStatuses, body \in ForeignBodies :
           ForeignReply(c, st, body)
    \/ \E i \in Insts : ConsumerHead(i)
    \/ \E i \in Insts, B \in Batches : Fetch(i, B, FALSE)
    \/ \E f \in work["client"], m \in Pending("client") : ClientRecv(f, m)
    \/ \E f \in work["client"] : GetCall(f)
    \/ \E f \in work["server"], m \in Pending("server") : ServerRecv(f, m)
    \/ \E f \in work["server"] : ServerReply(f)

SpecReply == InitReply /\ [][NextReply]_vars

\* ------------------------------------- the server's consumer loop, in order
\* SeqRequests distinct requests (any handler name, any correlation id) wait
\* on the request stream of a started server; the loop takes them one by one
\* and slog records what it does.
SeqRequests == 2

SequenceScen == [name |-> "sequence", calls |-> 0, dup |-> 0, shut |-> Quiet, disc |-> Quiet]

SeqEnvelopes == {m \in Envelopes : m.replyTo = ReplyDest /\ m.body = Digits(7)}

InitSequence ==
    /\ \E S \in SUBSET SeqEnvelopes :
          Cardinality(S) = SeqRequests /\ ConstructedIn({SequenceScen}, S)
    /\ conn = NewConnection(DefaultAttempts)
    /\ ctor = NoCtor

NextSequence ==
    \/ ConsumerHead("server")
    \/ \E B \in Batches : Fetch("server", B, FALSE)
    \/ \E f \in work["server"], m \in Pending("server") : ServerRecv(f, m)
    \/ \E f \in work["server"] : ServerReply(f)

SpecSequence == InitSequence /\ [][NextSequence]_vars

\* ------------------------------------------------ Start, called repeatedly
\* A constructed, unstarted server with requests waiting, on which the
\* application calls Start up to MaxStarts times.  Start has no guard: every
\* call runs "go s.consumer()", and each goroutine started goes round the same
\* loop and takes deliveries from the same stream.
MaxStarts == 3

\* Server.Start() on a server that was started before: go s.consumer() again.
ServerStartAgain ==
    /\ Alive("server")
    /\ loop["server"] \in {WaitPoint, "head", "work", "exited"}
    /\ gens["server"].started < MaxStarts
    /\ gens' = [gens EXCEPT !["server"] = GoConsumer(@)]
    /\ heads' = [heads EXCEPT !["server"] = IF binding = "kafka" THEN @ + 1 ELSE @]
    /\ loop' = [loop EXCEPT !["server"] =
                   LoopPos(work["server"], gens'["server"], heads'["server"])]
    /\ UNCHANGED <<constVars, callerVars, regVars, idVars, netVars, stop, connLive,
                   errChan, errBuf, panicked, shutPc, shutRes, disconnects, channel,
                   retries, work, invoked, effects, slog>>

InitStart ==
    /\ \E S \in SUBSET SeqEnvelopes :
          /\ Cardinality(S) = SeqRequests
          /\ ConstructedIn({x \in Scenarios : x.name = "server"}, S)
    /\ conn = NewConnection(DefaultAttempts)
    /\ ctor = NoCtor

NextStart ==
    \/ ServerStart
    \/ ServerStartAgain
    \/ ConsumerHead("server")
    \/ \E B \in Batches : Fetch("server", B, FALSE)
    \/ \E f \in work["server"], m \in Pending("server") : ServerRecv(f, m)
    \/ \E f \in work["server"] : ServerReply(f)

SpecStart == InitStart /\ [][NextStart]_vars

\* ================================================================= claims
\* The request envelope RemoteCall publishes for caller c's current call.
OwnRequest(c) ==
    [corr |-> corr[c], handler |-> handler[c], replyTo |-> ReplyDest,
     body |-> RequestBody(request[c])]

\* Steps of the consumer goroutines, read off two successive states: a
\* goroutine ends its wait with a new fetch; the server's serveCall of request
\* m begins (the lookup and the handler call) and ends (the publish); the
\* client looks reply m of frame f up in the registry.
Serving(w, m) == \E f \in w : f.cur = {m}
InService == UNION {f.cur : f \in work["server"]}
Fetched(i) == Cardinality(work'[i]) > Cardinality(work[i])
Called(m) == ~Serving(work["server"], m) /\ Serving(work'["server"], m)
Replied(m) == Serving(work["server"], m) /\ ~Serving(work'["server"], m)
Looked(f, m) ==
    /\ f \in work["client"] /\ f.cur = {} /\ m \in f.rest
    /\ f \notin work'["client"]
    /\ \A g \in work'["client"] \ work["client"] : m \notin g.rest

Returned(c) == pc[c] \in {"ret", "done"}
Fulfilled(c) == corr[c] # 0 /\ pcall[corr[c]].done
TimerResults == {"ErrTimeout", "ErrContextCanceled"}
Sentinels == {"ErrTimeout", "ErrConnectionClosed", "ErrBadHandler", "ErrInternalServer"}

\* The consumer loop has found caller c's pending call for a reply and has
\* not closed its completion signal yet.
Completing(c) == \E f \in work["client"] : f.cur # {} /\ f.k = corr[c]

\* C1 (round trip): a RemoteCall("echo", R, &out) with non-nil R whose reply
\* reached the client's consumer loop after the publish and before the call's
\* timer fired returns nil with out = R.  (A call whose timer fired while the
\* loop was completing it, or won a select in which the completion signal was
\* ready as well, is left out.)
C1_RoundTrip ==
    \A c \in Callers :
        ( /\ pc[c] = "done"
          /\ handler[c] = "echo"
          /\ request[c] # NilValue
          /\ early[c]
          /\ ~(result[c] \in TimerResults /\ (Fulfilled(c) \/ Completing(c))) )
        => (result[c] = "nil" /\ out[c] = request[c])

\* C2 (idempotent shutdown): on an instance that is not Failed, after a first
\* Shutdown() returned nil a second Shutdown() does not panic and returns nil.
C2_IdempotentShutdown ==
    \A i \in Insts :
        ( /\ errChan[i] # "closed"
          /\ Len(shutRes[i]) >= 1
          /\ shutRes[i][1] = "nil" )
        => ( /\ panicked[i] # "Shutdown"
             /\ Len(shutRes[i]) >= 2 => shutRes[i][2] = "nil" )

\* C3 (exactly-once fulfilment): once a registered pending call has been
\* fulfilled, a further reply with its correlation id neither writes it again
\* nor panics in getCall.
C3_ExactlyOnceFulfilment ==
    [][ \A k \in CorrIDs :
          (k \in calls /\ pcall[k].done)
          => (pcall'[k] = pcall[k] /\ panicked'["client"] # "getCall") ]_vars

\* C4 (unknown handler): for a request whose handler name is not a key of the
\* router the server invokes no handler and publishes a reply with the
\* bad-handler status and an empty body (which a live transport takes, and
\* nothing else in any case); the RemoteCall that receives it returns
\* ErrBadHandler, and the caller's output slot is left as it was.
C4_UnknownHandlerState ==
    /\ invoked \subseteq Router
    /\ \A c \in Callers : handler[c] \notin Router =>
         /\ \A m \in repNet : m.corr = corr[c] =>
                m.status = ErrBadHandlerStatus(binding) /\ m.body = <<>>
         /\ Returned(c) =>
              /\ out[c] = OutInit
              /\ (Fulfilled(c) /\ result[c] \notin TimerResults) => result[c] = "ErrBadHandler"

C4_UnknownHandlerStep ==
    /\ \A f \in work'["server"] : \A m \in f.cur :
          (Called(m) /\ m.handler \notin Router) => invoked' = invoked
    /\ \A m \in InService : (Replied(m) /\ m.handler \notin Router) =>
          /\ repNet' \subseteq repNet \cup {Reply(m, <<>>, ErrBadHandlerStatus(binding))}
          /\ channel["server"] = "live" =>
                Reply(m, <<>>, ErrBadHandlerStatus(binding)) \in repNet'

C4_UnknownHandler == []C4_UnknownHandlerState /\ [][C4_UnknownHandlerStep]_vars

C4_Witness ==
    \E c \in Callers :
        pc[c] = "done" /\ handler[c] \notin Router /\ result[c] = "ErrBadHandler"

\* C5 (handler error isolation): when the handler returns an error the server
\* publishes a reply with the internal-error status and an empty body (the
\* error's text is in neither; a live transport takes that reply, and nothing
\* else is published in any case), and the RemoteCall that receives it returns
\* exactly ErrInternalServer.
HandlerFails(c) ==
    handler[c] \in Router /\ CallHandler(handler[c], RequestBody(request[c])).err

C5_HandlerErrorState ==
    \A c \in Callers : HandlerFails(c) =>
        /\ \A m \in repNet : m.corr = corr[c] =>
               /\ m.status = ErrInternalServerStatus(binding)
               /\ m.body = <<>>
        /\ Returned(c) =>
             /\ out[c] = OutInit
             /\ (Fulfilled(c) /\ result[c] \notin TimerResults) => result[c] = "ErrInternalServer"

C5_HandlerErrorStep ==
    \A m \in InService :
        (Replied(m) /\ m.handler \in Router /\ CallHandler(m.handler, m.body).err) =>
            /\ repNet' \subseteq repNet \cup {Reply(m, <<>>, ErrInternalServerStatus(binding))}
            /\ channel["server"] = "live" =>
                  Reply(m, <<>>, ErrInternalServerStatus(binding)) \in repNet'

C5_HandlerErrorIsolation == []C5_HandlerErrorState /\ [][C5_HandlerErrorStep]_vars

C5_Witness ==
    \E c \in Callers :
        pc[c] = "done" /\ handler[c] = "fail" /\ result[c] = "ErrInternalServer"

\* C6 (timeout): a RemoteCall that was registered and never fulfilled returns
\* ErrTimeout when its timer fires (Kafka: or the context's error when the
\* caller's context is cancelled first), and once it has returned its
\* correlation id is not a key of the registry.
C6_Timeout ==
    \A c \in Callers :
        /\ pc[c] = "done" => corr[c] \notin calls
        /\ (Returned(c) /\ corr[c] # 0 /\ result[c] \notin PublishErrors /\ ~Fulfilled(c))
           => result[c] \in (IF binding = "kafka" THEN TimerResults ELSE {"ErrTimeout"})

C6_Witness ==
    \E c \in Callers :
        /\ pc[c] = "done"
        /\ result[c] = "ErrTimeout"
        /\ corr[c] # 0
        /\ ~Fulfilled(c)
        /\ corr[c] \notin calls

\* C7 (no cross-delivery): the status and body a pending call holds are those
\* of the reply to its own request, and an echo call that returned nil has its
\* own payload in the output slot.
C7_NoCrossDelivery ==
    \A c \in Callers :
        /\ Fulfilled(c) =>
             [corr |-> corr[c], status |-> pcall[corr[c]].status,
              body |-> pcall[corr[c]].body, dest |-> ReplyDest] \in ServeCall(binding, OwnRequest(c)).pub
        /\ (Returned(c) /\ result[c] = "nil" /\ handler[c] = "echo") => out[c] = request[c]

C7_Witness ==
    \E c, d \in Callers :
        /\ c # d
        /\ request[c] # request[d]
        /\ handler[c] = "echo" /\ handler[d] = "echo"
        /\ Fulfilled(c) /\ Fulfilled(d)
        /\ corr[c] \in calls /\ corr[d] \in calls

\* C8 (stable error surface): RemoteCall returns nil with the output slot
\* populated, or one of the four sentinel errors, and nothing else.
C8_OnlySentinels ==
    \A c \in Callers : pc[c] = "done" =>
        \/ result[c] \in Sentinels
        \/ result[c] = "nil" /\ out[c] # OutInit

\* C9 (call after shutdown): a RemoteCall whose entry select found the stop
\* channel closed by Shutdown publishes nothing, registers nothing and returns
\* ErrConnectionClosed.
C9_CallAfterShutdown ==
    \A c \in Callers : sawStop[c] = "Shutdown" =>
        /\ pc[c] \in {"sleep", "done"}
        /\ corr[c] = 0
        /\ pc[c] = "done" => result[c] = "ErrConnectionClosed"

C9_Witness ==
    \E c \in Callers :
        sawStop[c] = "Shutdown" /\ pc[c] = "done" /\ result[c] = "ErrConnectionClosed"

\* C10 (no RemoteCall hangs), as claimed: under a fair timer every RemoteCall
\* in progress eventually returns, a publish that never returns (the nil
\* channel's panic) being the one case set aside; and a call that was waiting
\* for its reply when the client's Shutdown closed stop or its transport
\* failed has returned ErrTimeout or ErrConnectionClosed when it returns.
C10_NoHang ==
    /\ \A c \in Callers :
           (pc[c] \notin {"idle", "done"}) ~> (pc[c] = "done" \/ panicked["client"] = "publish")
    /\ [](\A c \in Callers :
             (pc[c] = "done" /\ blocked[c]) =>
                 result[c] \in {"ErrTimeout", "ErrConnectionClosed"})

\* C11 (at most one reply per request): serving one request publishes at most
\* one reply, and exactly one when the request carries a handler name, a
\* correlation id and a reply destination, in every branch of serveCall; the
\* server publishes at no other moment.
C11_OneReplyPerRequest ==
    [][ /\ \A m \in InService : Replied(m) =>
              /\ Cardinality(repNet' \ repNet) <= 1
              /\ Complete(m) => Cardinality(repNet' \ repNet) = 1
        /\ repNet' # repNet => \E m \in InService : Replied(m) ]_vars

C11_Witness ==
    /\ reqNet = {}
    /\ work["server"] = {}
    /\ invoked = {"unser"}
    /\ Cardinality(repNet) = 1

\* C15 (marshal-failure downgrade): when the handler succeeded and its result
\* cannot be serialized, the reply published has the internal-error status and
\* an empty body, never the success status.
C15_MarshalFailureDowngrade ==
    (reqNet = {} /\ invoked = {"unser"}) =>
        \A r \in repNet :
            r.status = ErrInternalServerStatus(binding) /\ r.body = <<>>

\* C16 (protocol violation): a request whose handler name, correlation id or
\* reply destination is missing is discarded: no handler is invoked and no
\* reply is published.
C16_ProtocolViolation ==
    [][ /\ \A f \in work'["server"] : \A m \in f.cur :
              (Called(m) /\ ~Complete(m)) => invoked' = invoked
        /\ \A m \in InService :
              (Replied(m) /\ ~Complete(m)) => repNet' = repNet ]_vars

\* The consumer goroutine of instance i is inside reconnect()'s AttemptConnect.
Connecting(i) == loop[i] \in {"attempt", "sleep"} \cup (ConnectOutcomes \ {"none"})

\* C12 (terminal failure notification): the error channel is closed only by
\* reconnect(), right after the failure of its AttemptConnect was handed to a
\* receiver; the failure is sent once, and a closed error channel is never
\* closed again: its instance runs no reconnect and no consumer any more.
C12_NotifyState ==
    \A i \in Insts : errChan[i] = "closed" <=> loop[i] = "failed"

C12_NotifyStep ==
    \A i \in Insts :
        /\ errChan[i] = "closed" => (errChan'[i] = "closed" /\ loop'[i] = "failed")
        /\ (errChan[i] = "open" /\ errChan'[i] = "closed") => loop[i] = "closeerr"
        /\ (loop[i] = "senderr" /\ loop'[i] # "senderr") => loop'[i] = "closeerr"
        /\ (loop[i] # "senderr" /\ loop'[i] = "senderr") => Connecting(i)

\* C12: the state invariant and the step property together.
C12_TerminalNotification == []C12_NotifyState /\ [][C12_NotifyStep]_vars

C12_Witness ==
    \E i \in Insts : errChan[i] = "closed" /\ disconnects[i] = 1 /\ ~connLive[i]

\* C13 (Failed is terminal): once an instance has closed its error channel, no
\* consumer loop runs for it again, its stop channel and transport handle are
\* not touched, a Shutdown returns nil, and a RemoteCall that starts then goes
\* from the stop check to returning ErrConnectionClosed without publishing.
C13_FailedStep ==
    \A i \in Insts : errChan[i] = "closed" =>
        /\ loop'[i] = "failed"
        /\ stop'[i] = stop[i] /\ stop[i] # "open"
        /\ connLive'[i] = connLive[i] /\ channel'[i] = channel[i]
        \* (a RemoteCall that was past its stop check when the instance
        \* failed can still panic in publish)
        /\ panicked'[i] # panicked[i] => panicked'[i] = "publish"
        /\ shutPc'[i] = "idle"
        /\ shutRes'[i] # shutRes[i] => shutRes'[i] = Append(shutRes[i], "nil")
        /\ i = "client" =>
             \A c \in Callers : (pc[c] \in {"idle", "done", "sleep"} /\ pc'[c] # pc[c]) =>
                 /\ pc'[c] \in {"sleep", "done"}
                 /\ corr'[c] = 0
                 /\ reqNet' = reqNet /\ calls' = calls
                 /\ pc'[c] = "done" => result'[c] = "ErrConnectionClosed"

C13_FailedIsTerminal == [][C13_FailedStep]_vars

C13_Witness ==
    /\ errChan["client"] = "closed"
    /\ Len(shutRes["client"]) >= 1
    /\ \E c \in Callers :
          sawStop[c] = "reconnect" /\ pc[c] = "done" /\ result[c] = "ErrConnectionClosed"

\* C14 (cancellation): whenever a RemoteCall is blocked waiting for its reply,
\* an external deadline or cancellation signal can end the wait at once.
C14_Cancellation ==
    \A c \in Callers :
        (pc[c] = "wait" /\ Alive("client")) => ENABLED RemoteCallCtxDone(c)

\* A returned AttemptConnect call on the Connection.
AttemptReturned == conn.pc = "idle" /\ conn.runs > 0
Succeeded == \E k \in 1..Len(conn.trace) : conn.trace[k] = "none"

\* C17 (bounded retry): with Attempts = n > 0, AttemptConnect invokes connect()
\* at most n times and never after an invocation that succeeded; it returns nil
\* iff some invocation succeeded, and otherwise the error of the n-th (last)
\* invocation, wrapped.
C17_BoundedRetry ==
    conn.Attempts > 0 =>
        /\ Len(conn.trace) <= conn.Attempts
        /\ \A k \in 1..Len(conn.trace) : conn.trace[k] = "none" => k = Len(conn.trace)
        /\ AttemptReturned =>
             /\ conn.res = <<"nil">> <=> Succeeded
             /\ ~Succeeded =>
                  /\ Len(conn.trace) = conn.Attempts
                  /\ conn.res = AttemptResult(Connect(conn, conn.trace[conn.Attempts], "err").err)

C17_Witness ==
    /\ conn.Attempts = 2
    /\ AttemptReturned
    /\ Len(conn.trace) = 2
    /\ conn.trace[1] # conn.trace[2]
    /\ ~Succeeded

\* C18 (zero-attempt connect): with Attempts <= 0, AttemptConnect never invokes
\* connect(), returns nil, and the Connection keeps no handle, no channel and
\* no delivery stream.
C18_ZeroAttempts ==
    conn.Attempts <= 0 =>
        /\ conn.trace = <<>>
        /\ conn.Connection = "nil" /\ conn.Channel = "nil" /\ conn.Delivery = "nil"
        /\ AttemptReturned => conn.res = <<"nil">>

C18_Witness == conn.Attempts <= 0 /\ AttemptReturned /\ conn.res = <<"nil">>

\* C19 (connection all-or-nothing): after AttemptConnect returned, handle,
\* channel and delivery stream are either all set or all unset.
C19_AllOrNothing ==
    AttemptReturned =>
        \/ conn.Connection = "nil" /\ conn.Channel = "nil" /\ conn.Delivery = "nil"
        \/ conn.Connection # "nil" /\ conn.Channel # "nil" /\ conn.Delivery # "nil"

\* C20 (Kafka server construction): server.New with an empty GroupID returns
\* no Server and the "GroupID is required" error, without calling Connect.
C20_MissingGroupID ==
    (ctor.called /\ ctor.kind = "server" /\ binding = "kafka" /\ ctor.groupID = "") =>
        /\ ctor.server = "nil"
        /\ ctor.err = "kafka_rpc server - NewServer - GroupID is required for server"
        /\ ctor.connects = 0

C20_Witness == ctor.called /\ ctor.kind = "server" /\ binding = "kafka" /\ ctor.groupID = ""

\* C21 (construction fails on connect failure): when every connect attempt
\* failed (Attempts >= 1), client.New and server.New return a nil instance and
\* a non-nil error, and no consumer loop is started.
AllConnectsFailed ==
    IF binding = "kafka"
    THEN ctor.connects = 1 /\ ~ctor.connectOk
    \* conn.runs = 1: the trace is that of the AttemptConnect call made by New
    ELSE conn.runs = 1 /\ conn.Attempts >= 1 /\ Len(conn.trace) >= 1 /\ ~Succeeded

C21_ConstructionFails ==
    (ctor.called /\ AllConnectsFailed) =>
        /\ ctor.server = "nil"
        /\ ctor.err # "nil"
        /\ ~ctor.consumer

C21_Witness ==
    /\ ctor.called /\ AllConnectsFailed
    /\ ctor.kind = "client"
    /\ binding = "rabbitmq"
    /\ Len(conn.trace) = MaxAttempts

\* C22 (per-call side effects), as claimed: every RemoteCall that has returned
\* made exactly one publish, one registry insert and one registry delete,
\* whatever its exit path.
C22_OnePublishInsertDelete ==
    \A c \in Callers :
        pc[c] = "done" => effects[c] = [pub |-> 1, ins |-> 1, del |-> 1]

\* C22, amended: a RemoteCall never publishes, inserts or deletes more than
\* once; one rejected at entry because the client is shut down, and one whose
\* request cannot be serialized, does none of the three; one whose transport
\* publish failed has made that one publish and neither insert nor delete;
\* every other one (success, error status, timeout, cancellation) has made
\* exactly one of each when it returns.
C22_SideEffects ==
    \A c \in Callers :
        /\ effects[c].pub <= 1 /\ effects[c].ins <= 1 /\ effects[c].del <= 1
        /\ pc[c] = "done" =>
              effects[c] = IF corr[c] = 0 \/ result[c] = "ErrMarshal" THEN NoEffects
                           ELSE IF result[c] = "ErrPublish"
                           THEN [pub |-> 1, ins |-> 0, del |-> 0]
                           ELSE [pub |-> 1, ins |-> 1, del |-> 1]

C22_Witness ==
    \E c \in Callers :
        /\ pc[c] = "done"
        /\ result[c] = "ErrMarshal"
        /\ corr[c] # 0
        /\ effects[c] = NoEffects

\* C23 (reconnect generations, RabbitMQ): when the delivery stream yields
\* closed the consumer loop leaves its select for AttemptConnect without a new
\* loop being started; a successful AttemptConnect starts exactly one new loop,
\* on the new stream, and ends the old one; a failed one starts none; and an
\* instance never has more than one consumer loop alive.
Running(i) == gens[i].started - gens[i].exited

C23_OneGeneration == \A i \in Insts : Running(i) \in 0..1

C23_ReconnectStep ==
    \A i \in Insts :
        /\ (loop[i] = "select" /\ loop'[i] = "attempt") =>
              (~connLive[i] /\ gens'[i] = gens[i] /\ work[i] = {})
        /\ Connecting(i) =>
              (gens'[i] = gens[i] /\ Cardinality(work'[i]) <= Cardinality(work[i]))
        /\ (Connecting(i) /\ loop'[i] = "install") => connLive'[i]
        /\ (Connecting(i) /\ loop'[i] = "senderr") => ~connLive'[i]
        /\ (loop[i] = "install" /\ loop'[i] # "install") =>
              /\ loop'[i] = "select"
              /\ gens'[i].started = gens[i].started + 1
              /\ gens'[i].exited = gens[i].exited + 1
        /\ gens'[i].started > gens[i].started =>
              loop[i] \in {"new", "install"}

C23_ReconnectGenerations == []C23_OneGeneration /\ [][C23_ReconnectStep]_vars

C23_Witness ==
    \E i \in Insts :
        /\ binding = "rabbitmq"
        /\ gens[i] = [started |-> 2, exited |-> 1]
        /\ loop[i] = "select"
        /\ connLive[i]

\* C24 (cooperative shutdown): once Shutdown has broadcast the stop signal of
\* an instance, its consumer loop takes no further message from its inbound
\* stream: the server consumes no request and invokes no handler, the client
\* consumes no reply.
C24_CooperativeShutdown ==
    [][ \A i \in Insts : stop[i] = "Shutdown" => ~Fetched(i) ]_vars

\* C25 (single-threaded dispatch): at most one handler invocation is in
\* progress at any time; a request received before another has had its
\* handler invoked, and its reply published, before the handler of the other
\* is invoked.
CountOf(e, k) == Cardinality({p \in 1..k : slog[p].ev = e})
InProgress(k) == CountOf("invoke", k) - CountOf("returned", k)
Before(e, m, q) == \E p \in 1..(q - 1) : slog[p].ev = e /\ slog[p].req = m

C25_SingleThreadedDispatch ==
    /\ \A k \in 1..Len(slog) : InProgress(k) \in 0..1
    /\ \A q \in 1..Len(slog) :
          slog[q].ev = "invoke" =>
              /\ Before("recv", slog[q].req, q)
              /\ \A p \in 1..(q - 1) :
                    (slog[p].ev = "recv" /\ slog[p].req # slog[q].req) =>
                        LET m == slog[p].req
                            r == ServeCall(binding, m)
                        IN  /\ r.inv => (Before("invoke", m, q) /\ Before("returned", m, q))
                            /\ r.pub # {} => Before("publish", m, q)

C25_Witness ==
    \E p, q \in 1..Len(slog) :
        /\ p < q
        /\ slog[p].ev = "invoke" /\ slog[q].ev = "invoke"
        /\ \E k \in (p + 1)..(q - 1) : slog[k].ev = "publish" /\ slog[k].req = slog[p].req

\* C26 (ack before dispatch, RabbitMQ server): every delivery received is
\* acknowledged at once, before the router lookup, the handler invocation and
\* the reply, whether the handler is missing, fails or succeeds.
C26_AckBeforeDispatch ==
    binding = "rabbitmq" =>
        \A k \in 1..Len(slog) :
            /\ (slog[k].ev = "recv" /\ k < Len(slog)) =>
                  slog[k + 1] = [ev |-> "ack", req |-> slog[k].req]
            /\ slog[k].ev \in {"lookup", "invoke", "publish"} =>
                  Before("ack", slog[k].req, k)

C26_Witness ==
    /\ binding = "rabbitmq"
    /\ \E p, q \in 1..Len(slog) :
          /\ slog[p].ev = "ack" /\ slog[p].req.handler \notin Router
          /\ slog[q].ev = "ack" /\ slog[q].req.handler = "fail"

\* C27 (unknown status), as claimed: a call completed by a reply whose status
\* is none of success, bad-handler, internal-error returns what unmarshalling
\* the reply body into the output slot gives.
UnknownStatus(c) ==
    \* the pending call was written once, by the reply the call read: no second
    \* reply with its correlation id is being written to it (Completing), and
    \* none was (the client is alive: a second completion panics in
    \* close(call.done))
    /\ Alive("client")
    /\ ~Completing(c)
    /\ Returned(c) /\ Fulfilled(c)
    /\ result[c] \notin TimerResults
    /\ pcall[corr[c]].status \notin ServerStatuses(binding)

C27_UnknownAsSuccess ==
    \A c \in Callers :
        UnknownStatus(c) =>
            LET u == Unmarshal(pcall[corr[c]].body, OutInit) IN
            /\ result[c] = IF u.err THEN "ErrUnmarshal" ELSE "nil"
            /\ out[c] = u.val

\* C27, amended: such a call returns nil without unmarshalling the body: the
\* output slot is left as the caller passed it.
C27_UnknownStatusIgnored ==
    \A c \in Callers :
        UnknownStatus(c) => (result[c] = "nil" /\ out[c] = OutInit)

C27_Witness ==
    \E c \in Callers :
        /\ UnknownStatus(c)
        /\ pc[c] = "done"
        /\ pcall[corr[c]].status = "v2-partial"
        /\ pcall[corr[c]].body = Digits(12)

\* C29 (envelope invariant): every request RemoteCall publishes carries a
\* non-empty handler name, reply destination and correlation id, and every
\* reply a server publishes carries a non-empty correlation id and status.
C29_EnvelopeInvariant ==
    [][ /\ \A m \in reqNet' \ reqNet :
             m.handler # "" /\ m.replyTo # "" /\ m.corr # 0
        /\ \A m \in InService : Replied(m) =>
             \A r \in repNet' \ repNet : r.corr # 0 /\ r.status # "" ]_vars

\* C28 (reply routing): every reply the server publishes carries the
\* correlation id of the request that caused it, goes to that request's reply
\* destination, and has one of the three statuses.
C28_ReplyRouting ==
    [][ \A r \in repNet' \ repNet :
          \E m \in InService :
              /\ Replied(m)
              /\ r.corr = m.corr
              /\ r.dest = m.replyTo
              /\ r.status \in ServerStatuses(binding) ]_vars

C28_Witness ==
    /\ reqNet = {} /\ work["server"] = {}
    /\ \E r \in repNet : r.corr # 0 /\ r.dest = "" /\ r.status = Success

\* C30 (late or unmatched reply): when the consumer loop looks up a reply
\* whose correlation id is not a key of the registry, that step changes no
\* pending call, leaves the registry as it was and does not crash the client,
\* and the loop goes on without a pending call to complete: the only replies
\* it writes to a pending call are those whose lookup found their key.
C30_UnmatchedReply ==
    [][ /\ \A f \in work["client"] : \A m \in f.rest :
             (Looked(f, m) /\ m.corr \notin calls) =>
                 /\ UNCHANGED <<pcall, calls, panicked>>
                 /\ ~Serving(work'["client"], m)
        /\ \A g \in work'["client"] \ work["client"] :
             (g.cur # {} /\ g.at = "status") =>
                 (g.k \in calls /\ \A m \in g.cur : m.corr = g.k)
        /\ pcall' # pcall =>
             \/ \E c \in Callers : pc'[c] # pc[c]
             \/ \E f \in work["client"] : f.cur # {} /\ f \notin work'["client"] ]_vars

\* A call that timed out, whose reply was then consumed without touching it.
C30_Witness ==
    \E c \in Callers :
        /\ pc[c] = "done"
        /\ result[c] = "ErrTimeout"
        /\ corr[c] # 0
        /\ corr[c] \notin calls
        /\ ~early[c]
        /\ ~pcall[corr[c]].done
        /\ handler[c] \in invoked
        /\ \A m \in reqNet : m.corr # corr[c]
        /\ \A r \in repNet : r.corr # corr[c]
        /\ work["client"] = {} /\ work["server"] = {}
        /\ Alive("client")

\* C31 (registry frame): the consumer loop never changes the key set of the
\* registry; a key is inserted only by the RemoteCall that owns it, at its
\* addCall, and deleted only by that RemoteCall, at its deferred deleteCall.
ConsumerStep == work'["client"] # work["client"]

C31_RegistryFrame ==
    [][ /\ ConsumerStep => calls' = calls
        /\ calls' # calls =>
             \E c \in Callers :
                 \/ /\ pc[c] = "register" /\ pc'[c] = "wait"
                    /\ calls' = calls \cup {corr[c]}
                 \/ /\ pc[c] = "ret" /\ pc'[c] = "done"
                    /\ calls' = calls \ {corr[c]} ]_vars

\* A reply was matched to a pending call whose key is still registered.
C31_Witness ==
    \E c \in Callers :
        /\ pc[c] = "wait"
        /\ Fulfilled(c)
        /\ corr[c] \in calls
        /\ \A r \in repNet : r.corr # corr[c]

\* C32 (nothing before Start): while the server has been constructed and Start
\* has not been called, no request is taken from its stream, no handler is
\* invoked and no reply is published.
C32_NotStarted == gens["server"].started = 0

C32_Idle == C32_NotStarted => (loop["server"] = "new" /\ invoked = {} /\ repNet = {})

C32_IdleStep ==
    C32_NotStarted =>
        (reqNet \subseteq reqNet' /\ invoked' = invoked /\ repNet' \subseteq repNet)

C32_NothingBeforeStart == []C32_Idle /\ [][C32_IdleStep]_vars

\* A request waited on the stream of the unstarted server until its call timed out.
C32_Witness ==
    /\ C32_NotStarted
    /\ \E c \in Callers :
          /\ pc[c] = "done" /\ result[c] = "ErrTimeout"
          /\ OwnRequest(c) \in reqNet

\* C33 (Kafka Connect): Connect makes at most MaxRetries+1 client-creation
\* attempts and none after a success; it returns nil at the first success, the
\* context's error when the context is done at a wait between attempts, and
\* otherwise, after MaxRetries+1 failures, an error wrapping the last failure.
KafkaReturned == conn.pc = "returned"
KafkaSucceeded == \E k \in 1..Len(conn.trace) : conn.trace[k] = "none"

C33_KafkaConnect ==
    /\ Len(conn.trace) <= (IF conn.MaxRetries >= 0 THEN conn.MaxRetries + 1 ELSE 0)
    /\ \A k \in 1..Len(conn.trace) : conn.trace[k] = "none" => k = Len(conn.trace)
    /\ (KafkaReturned /\ conn.trace # <<>>) =>
         /\ KafkaSucceeded => conn.res = <<"nil">>
         /\ (~KafkaSucceeded /\ conn.ctx = "done") =>
               (conn.res = <<"ctx.Err">> /\ Len(conn.trace) <= conn.MaxRetries)
         /\ (~KafkaSucceeded /\ conn.ctx = "live") =>
               /\ Len(conn.trace) = conn.MaxRetries + 1
               /\ conn.res = KafkaConnectResult(<<conn.trace[Len(conn.trace)]>>)

C33_Witness ==
    /\ KafkaReturned
    /\ conn.MaxRetries = 2
    /\ conn.res = <<"ctx.Err">>
    /\ Len(conn.trace) = 2
    /\ conn.trace[1] # conn.trace[2]

\* C34 (registration window): from the publish of a call's request to the
\* return of the call its correlation id is a key of the registry, and no
\* reply to it is processed by the consumer loop while it is not.
C34_RegistrationWindow ==
    \A c \in Callers :
        /\ pc[c] \in {"register", "wait", "ret"} => corr[c] \in calls
        /\ ~early[c]

\* C35 (Shutdown versus reconnect, RabbitMQ): however Shutdown interleaves
\* with the consumer loop and reconnect(), the stop channel is not closed
\* twice: reconnect() does not close the channel Shutdown closed (no reconnect
\* starts after Shutdown began), and Shutdown does not close the channel
\* reconnect() closed.
C35_ShutdownVsReconnect ==
    binding = "rabbitmq" =>
        \A i \in Insts :
            /\ panicked[i] # "reconnect"
            /\ ~(panicked[i] = "Shutdown" /\ stop[i] = "reconnect")

\* C36 (Shutdown effect): once Shutdown has returned nil on an instance that
\* is not in (or entering) the terminal Failed state, its stop signal has been
\* broadcast and its transport handle is closed, also when an error value was
\* pending on the Notify channel.
ReturnedNil(i) == \E k \in 1..Len(shutRes[i]) : shutRes[i][k] = "nil"
Failing(i) == errChan[i] = "closed" \/ loop[i] \in {"closeerr", "failed"}

C36_ShutdownEffect ==
    \A i \in Insts :
        (Alive(i) /\ ReturnedNil(i) /\ ~Failing(i)) =>
            (StopClosed(i) /\ ~connLive[i])

\* C37 (Notify close is unconditional, RabbitMQ): once reconnect() has
\* exhausted its attempts, the Notify channel is eventually closed, whether
\* or not anything receives from it.
C37_NotifyEventuallyClosed ==
    \A i \in Insts :
        (loop[i] = "senderr" /\ Alive(i)) ~> (errChan[i] = "closed" \/ ~Alive(i))

\* C38 (constructed instances are connected): every instance New returned
\* without error holds a fully connected Connection (handle, channel and
\* delivery stream set), whatever the configured attempt count.
C38_ConstructedConnected ==
    (binding = "rabbitmq" /\ ctor.called /\ ctor.err = "nil" /\ conn.runs = 1) =>
        /\ ctor.server # "nil"
        /\ conn.Connection # "nil" /\ conn.Channel # "nil" /\ conn.Delivery # "nil"

\* C39 (RemoteCall while recovering, RabbitMQ client): a RemoteCall that found
\* the stop signal set has published and registered nothing while it sleeps;
\* after the sleep it returns ErrConnectionClosed, still without publishing,
\* iff the signal it reads then is set, and otherwise goes on to publish.
C39_Sleeping ==
    \A c \in Callers :
        pc[c] = "sleep" =>
            /\ binding = "rabbitmq"
            /\ sawStop[c] # "open"
            /\ effects[c] = NoEffects
            /\ corr[c] = 0

C39_RecheckStep ==
    \A c \in Callers :
        (pc[c] = "sleep" /\ pc'[c] # "sleep") =>
            IF StopClosed("client")
            THEN /\ pc'[c] = "done"
                 /\ result'[c] = "ErrConnectionClosed"
                 /\ effects'[c] = NoEffects
                 /\ reqNet' = reqNet /\ calls' = calls
            ELSE /\ pc'[c] = "publish"
                 /\ result'[c] = "none"

C39_CallWhileRecovering == []C39_Sleeping /\ [][C39_RecheckStep]_vars

\* A call that found the signal set by reconnect() and, a reconnect later,
\* published and registered.
C39_Witness ==
    \E c \in Callers :
        /\ sawStop[c] = "reconnect"
        /\ pc[c] = "wait"
        /\ corr[c] \in calls
        /\ effects[c] = [pub |-> 1, ins |-> 1, del |-> 0]

\* C40 (one consumer loop per Server): whatever the sequence of Start calls,
\* at most one consumer loop of the server is active at a time.
C40_OneLoopPerServer == gens["server"].started - gens["server"].exited <= 1

====
